---------------------------- MODULE Spec2Model ----------------------------
(***************************************************************************)
(* Model of gemini_pdf_analyzer: the analysis pipeline with caching and    *)
(* retry (analyzer.py, cache.py, models.py).                               *)
(*                                                                         *)
(* Python strings are sequences of one-character strings, so that slicing, *)
(* strip, upper, split and join are computed as the code computes them.    *)
(* None is the model value None; a failed hash is HashError.               *)
(***************************************************************************)
EXTENDS Integers, Sequences, FiniteSets, TLC

None == "None"

(***************************************************************************)
(* Python string primitives                                                *)
(***************************************************************************)
IsSpace(c) == c \in {" ", "\t", "\n", "\r", "\f"}

\* str.strip(): the text between the first and the last non-space character
Strip(s) ==
    LET keep == {i \in 1..Len(s) : ~IsSpace(s[i])} IN
    IF keep = {} THEN <<>>
    ELSE SubSeq(s, CHOOSE i \in keep : \A j \in keep : i <= j,
                   CHOOSE i \in keep : \A j \in keep : j <= i)

LowerLetters == <<"a","b","c","d","e","f","g","h","i","j","k","l","m",
                  "n","o","p","q","r","s","t","u","v","w","x","y","z">>
UpperLetters == <<"A","B","C","D","E","F","G","H","I","J","K","L","M",
                  "N","O","P","Q","R","S","T","U","V","W","X","Y","Z">>

UpperChar(c) ==
    IF \E i \in 1..Len(LowerLetters) : LowerLetters[i] = c
    THEN UpperLetters[CHOOSE i \in 1..Len(LowerLetters) : LowerLetters[i] = c]
    ELSE c

\* str.upper()
Upper(s) == [i \in 1..Len(s) |-> UpperChar(s[i])]

\* str.startswith(p)
StartsWith(s, p) == Len(s) >= Len(p) /\ SubSeq(s, 1, Len(p)) = p

\* s[n:]
DropChars(s, n) == SubSeq(s, n + 1, Len(s))

\* s[:n]: the first n items, all of s when n >= len(s); a negative n counts
\* from the end, s[:n] is then s without its last -n items
TakeChars(s, n) ==
    SubSeq(s, 1, IF n >= Len(s) THEN Len(s)
                 ELSE IF n >= 0 THEN n
                 ELSE IF Len(s) + n >= 0 THEN Len(s) + n ELSE 0)

\* str.split(sep) for a one-character separator: the pieces between the
\* occurrences of sep, always at least one piece
Split(s, sep) ==
    LET at == {i \in 1..Len(s) : s[i] = sep}
        n == Cardinality(at)
        pos(k) == IF k = 0 THEN 0
                  ELSE IF k = n + 1 THEN Len(s) + 1
                  ELSE CHOOSE i \in at : Cardinality({j \in at : j < i}) = k - 1
    IN  [k \in 1..(n + 1) |-> SubSeq(s, pos(k - 1) + 1, pos(k) - 1)]

\* " ".join(c for c in content if c)
RECURSIVE JoinNonEmpty(_)
JoinNonEmpty(content) ==
    IF content = <<>> THEN <<>>
    ELSE LET rest == JoinNonEmpty(Tail(content)) IN
         IF Head(content) = <<>> THEN rest
         ELSE IF rest = <<>> THEN Head(content)
         ELSE Head(content) \o <<" ">> \o rest

\* [k.strip() for k in content_text.split(",") if k.strip()]
RECURSIVE StripNonEmpty(_)
StripNonEmpty(pieces) ==
    IF pieces = <<>> THEN <<>>
    ELSE IF Strip(Head(pieces)) = <<>> THEN StripNonEmpty(Tail(pieces))
    ELSE <<Strip(Head(pieces))>> \o StripNonEmpty(Tail(pieces))


(***************************************************************************)
(* models.py                                                               *)
(***************************************************************************)
\* PdfDocument(path, filename, text, page_count)
PdfDocument(path, filename, text, page_count) ==
    [path |-> path, filename |-> filename, text |-> text, page_count |-> page_count]

\* PdfAnalysisResult(...), with the dataclass defaults spelled out by callers
PdfAnalysisResult(filename, summary, key_entities, action_items, keywords, raw_response, error) ==
    [filename |-> filename, summary |-> summary, key_entities |-> key_entities,
     action_items |-> action_items, keywords |-> keywords,
     raw_response |-> raw_response, error |-> error]

\* PdfAnalysisResult.is_successful
is_successful(r) == r.error = None

(***************************************************************************)
(* analyzer.py: _parse_response                                            *)
(***************************************************************************)
HDR_SUMMARY      == <<"S","U","M","M","A","R","Y",":">>
HDR_KEY_ENTITIES == <<"K","E","Y"," ","E","N","T","I","T","I","E","S",":">>
HDR_ACTION_ITEMS == <<"A","C","T","I","O","N"," ","I","T","E","M","S",":">>
HDR_KEYWORDS     == <<"K","E","Y","W","O","R","D","S",":">>

FALLBACK_CHARS == 500

\* _save_section: the dict it is handed, updated (no "keywords" case)
_save_section(section, content, local_vars) ==
    LET content_text == JoinNonEmpty(content) IN
    IF section = "summary" THEN [local_vars EXCEPT !.summary = content_text]
    ELSE IF section = "key_entities" THEN [local_vars EXCEPT !.key_entities = content_text]
    ELSE IF section = "action_items" THEN [local_vars EXCEPT !.action_items = content_text]
    ELSE local_vars

\* Mutation of FlushAtHeader: the helper's writes reach the function's variables
FlushAtHeader_Writes(st) ==
    IF st.current_section # None
    THEN _save_section(st.current_section, st.current_content, st)
    ELSE st

\* The flush at a header: _save_section writes into the dict locals() returns,
\* which is a snapshot of the frame; the function's variables stay as they are.
FlushAtHeader(st) ==
    IF st.current_section # None
    THEN LET snapshot == _save_section(st.current_section, st.current_content, st) IN st
    ELSE st

\* One iteration of the loop over response_text.split("\n")
ParseLine(st, line) ==
    LET line_stripped == Strip(line)
        line_upper == Upper(line_stripped)
        open(name, hdr) ==
            [FlushAtHeader(st) EXCEPT
                !.current_section = name,
                !.current_content = <<Strip(DropChars(line_stripped, Len(hdr)))>>]
    IN  IF StartsWith(line_upper, HDR_SUMMARY) THEN open("summary", HDR_SUMMARY)
        ELSE IF StartsWith(line_upper, HDR_KEY_ENTITIES) THEN open("key_entities", HDR_KEY_ENTITIES)
        ELSE IF StartsWith(line_upper, HDR_ACTION_ITEMS) THEN open("action_items", HDR_ACTION_ITEMS)
        ELSE IF StartsWith(line_upper, HDR_KEYWORDS) THEN open("keywords", HDR_KEYWORDS)
        ELSE IF st.current_section # None
             THEN [st EXCEPT !.current_content = Append(@, line_stripped)]
             ELSE st

RECURSIVE ParseLines(_, _)
ParseLines(st, lines) ==
    IF lines = <<>> THEN st ELSE ParseLines(ParseLine(st, Head(lines)), Tail(lines))

ParseInit ==
    [summary |-> <<>>, key_entities |-> <<>>, action_items |-> <<>>,
     keywords |-> <<>>, current_section |-> None, current_content |-> <<>>]

\* "Process final section"
ProcessFinal(st) ==
    IF st.current_section # None /\ st.current_content # <<>>
    THEN LET content_text == JoinNonEmpty(st.current_content) IN
         IF st.current_section = "summary" THEN [st EXCEPT !.summary = content_text]
         ELSE IF st.current_section = "key_entities" THEN [st EXCEPT !.key_entities = content_text]
         ELSE IF st.current_section = "action_items" THEN [st EXCEPT !.action_items = content_text]
         ELSE IF st.current_section = "keywords"
              THEN [st EXCEPT !.keywords = StripNonEmpty(Split(content_text, ","))]
         ELSE st
    ELSE st

\* Mutation of Fallback: the whole raw response, however long
Fallback_NoLimit(st, response_text) ==
    IF st.summary = <<>> /\ st.key_entities = <<>> /\ st.action_items = <<>>
    THEN [st EXCEPT !.summary = response_text]
    ELSE st

\* Mutation of Fallback: parsed keywords count as a parsed section
Fallback_UnlessKeywords(st, response_text) ==
    IF st.summary = <<>> /\ st.key_entities = <<>> /\ st.action_items = <<>>
       /\ st.keywords = <<>>
    THEN [st EXCEPT !.summary =
            IF Len(response_text) > FALLBACK_CHARS
            THEN TakeChars(response_text, FALLBACK_CHARS) ELSE response_text]
    ELSE st

\* Mutation of Fallback: only a response without any recognised header falls back
Fallback_OnlyWithoutHeader(st, response_text) ==
    IF st.current_section = None
    THEN [st EXCEPT !.summary =
            IF Len(response_text) > FALLBACK_CHARS
            THEN TakeChars(response_text, FALLBACK_CHARS) ELSE response_text]
    ELSE st

\* "Fallback: if no sections parsed, use raw response"
Fallback(st, response_text) ==
    IF st.summary = <<>> /\ st.key_entities = <<>> /\ st.action_items = <<>>
    THEN [st EXCEPT !.summary =
            IF Len(response_text) > FALLBACK_CHARS
            THEN TakeChars(response_text, FALLBACK_CHARS) ELSE response_text]
    ELSE st

\* Mutation of _parse_response: raw_response holds what summary fell back to
_parse_response_RawCut(response_text, filename) ==
    LET st == Fallback(ProcessFinal(ParseLines(ParseInit, Split(response_text, "\n"))),
                       response_text)
    IN  PdfAnalysisResult(filename, st.summary, st.key_entities, st.action_items,
                          st.keywords, TakeChars(response_text, FALLBACK_CHARS), None)

_parse_response(response_text, filename) ==
    LET st == Fallback(ProcessFinal(ParseLines(ParseInit, Split(response_text, "\n"))),
                       response_text)
    IN  PdfAnalysisResult(filename, st.summary, st.key_entities, st.action_items,
                          st.keywords, response_text, None)


(***************************************************************************)
(* cache.py                                                                *)
(***************************************************************************)
Missing   == "<missing>"
HashError == "<hash-error>"

\* File contents a path may hold, and their MD5 hex digests
Contents == {"bytes1", "bytes2"}
Md5Hex(bytes) == IF bytes = "bytes1" THEN "md5-1" ELSE "md5-2"

\* Mutation of _compute_file_hash: the digest of the path, not of the bytes
_compute_file_hash_OfPath(fs, file_path) ==
    IF fs[file_path] = Missing THEN HashError ELSE "md5-1"

\* Mutation of _compute_file_hash: a file that cannot be opened hashes as the
\* empty file
_compute_file_hash_MissingAsEmpty(fs, file_path) ==
    IF fs[file_path] = Missing THEN "md5-empty" ELSE Md5Hex(fs[file_path])

\* _compute_file_hash: open() raises when the file is missing or unreadable
_compute_file_hash(fs, file_path) ==
    IF fs[file_path] = Missing THEN HashError ELSE Md5Hex(fs[file_path])

NoResult == [is_none |-> TRUE]

\* A store that is not a dict: json.load of a cache file whose content is a
\* JSON array of strings returns a list
PyList(items) == [py_list |-> items]
IsPyList(c) == DOMAIN c = {"py_list"}

\* cache[doc.filename] on a list raises TypeError outside the try blocks
LookupRaised == [is_none |-> FALSE, raised |-> "TypeError"]

\* dict.get(key, default)
DictGet(d, key, default) == IF key \in DOMAIN d THEN d[key] ELSE default

\* Mutation of get_cached_result: the stored hash is not compared
get_cached_result_NoHashCheck(c, doc, fs) ==
    IF doc.filename \notin DOMAIN c THEN NoResult
    ELSE LET cached == c[doc.filename] IN
         IF ~ ({"filename", "summary", "key_entities", "action_items"}
                  \subseteq DOMAIN cached)
         THEN NoResult
         ELSE PdfAnalysisResult(cached.filename, cached.summary,
                                cached.key_entities, cached.action_items,
                                DictGet(cached, "keywords", <<>>),
                                DictGet(cached, "raw_response", <<>>),
                                DictGet(cached, "error", None))

\* get_cached_result: the PdfAnalysisResult of a valid entry, or NoResult (None)
get_cached_result(c, doc, fs) ==
    IF IsPyList(c)
    THEN IF \E i \in DOMAIN c.py_list : c.py_list[i] = doc.filename
         THEN LookupRaised ELSE NoResult
    ELSE
    IF doc.filename \notin DOMAIN c THEN NoResult
    ELSE LET cached == c[doc.filename]
             current_hash == _compute_file_hash(fs, doc.path)
         IN  IF current_hash = HashError THEN NoResult
             ELSE IF DictGet(cached, "file_hash", None) # current_hash THEN NoResult
             ELSE IF ~ ({"filename", "summary", "key_entities", "action_items"}
                            \subseteq DOMAIN cached)
                  THEN NoResult
             ELSE PdfAnalysisResult(cached.filename, cached.summary,
                                    cached.key_entities, cached.action_items,
                                    DictGet(cached, "keywords", <<>>),
                                    DictGet(cached, "raw_response", <<>>),
                                    DictGet(cached, "error", None))

\* Mutation of cache_result: the keywords are left out of the entry
cache_result_NoKeywords(c, doc, result, fs, now) ==
    LET file_hash == _compute_file_hash(fs, doc.path) IN
    IF file_hash = HashError THEN c
    ELSE (doc.filename :>
            [filename |-> result.filename, summary |-> result.summary,
             key_entities |-> result.key_entities,
             action_items |-> result.action_items,
             raw_response |-> result.raw_response,
             error |-> result.error, file_hash |-> file_hash,
             cached_at |-> now]) @@ c

\* Mutation of cache_result: the dict is emptied before the entry is set
cache_result_DropsOthers(c, doc, result, fs, now) ==
    LET file_hash == _compute_file_hash(fs, doc.path) IN
    IF file_hash = HashError \/ IsPyList(c) THEN c
    ELSE (doc.filename :>
            [filename |-> result.filename, summary |-> result.summary,
             key_entities |-> result.key_entities,
             action_items |-> result.action_items,
             keywords |-> result.keywords, raw_response |-> result.raw_response,
             error |-> result.error, file_hash |-> file_hash,
             cached_at |-> now])

\* Mutation of cache_result: the entry is keyed by the document's path
cache_result_KeyedByPath(c, doc, result, fs, now) ==
    LET file_hash == _compute_file_hash(fs, doc.path) IN
    IF file_hash = HashError \/ IsPyList(c) THEN c
    ELSE (doc.path :>
            [filename |-> result.filename, summary |-> result.summary,
             key_entities |-> result.key_entities,
             action_items |-> result.action_items,
             keywords |-> result.keywords, raw_response |-> result.raw_response,
             error |-> result.error, file_hash |-> file_hash,
             cached_at |-> now]) @@ c

\* cache_result: the dict after the call; now is datetime.now() at the call
cache_result(c, doc, result, fs, now) ==
    LET file_hash == _compute_file_hash(fs, doc.path) IN
    IF file_hash = HashError \/ IsPyList(c) THEN c
    ELSE (doc.filename :>
            [filename |-> result.filename, summary |-> result.summary,
             key_entities |-> result.key_entities,
             action_items |-> result.action_items,
             keywords |-> result.keywords, raw_response |-> result.raw_response,
             error |-> result.error, file_hash |-> file_hash,
             cached_at |-> now]) @@ c

(***************************************************************************)
(* analyzer.py: analyze_document                                           *)
(***************************************************************************)
MAX_RETRIES == 3
RETRY_DELAY_SECONDS == 2
\* time.sleep(0.5) between documents, in tenths of a second
PACING_DELAY_TENTHS == 5

EMPTY_SUMMARY ==
    <<"D","o","c","u","m","e","n","t"," ","c","o","n","t","a","i","n","s"," ",
      "n","o"," ","e","x","t","r","a","c","t","a","b","l","e"," ","t","e","x","t">>

\* Mutation of IsEmptyText: the text is not stripped before the test
IsEmptyText_NoStrip(text) == text = <<>>

\* not doc.text.strip()
IsEmptyText(text) == Strip(text) = <<>>

\* Mutation of EmptyDocumentResult: no error is set
EmptyDocumentResult_NoError(doc) ==
    PdfAnalysisResult(doc.filename, EMPTY_SUMMARY, <<>>, <<>>, <<>>, <<>>, None)

\* The result of the "Handle empty documents" branch
EmptyDocumentResult(doc) ==
    PdfAnalysisResult(doc.filename, EMPTY_SUMMARY, <<>>, <<>>, <<>>, <<>>,
                      "Empty document")

\* "Truncate text if needed"
TruncateText(text, max_chars) ==
    IF Len(text) > max_chars THEN TakeChars(text, max_chars) ELSE text

\* ANALYSIS_PROMPT.format(document_text=text)
BuildPrompt(text) == [template |-> "ANALYSIS_PROMPT", document_text |-> text]

NoError == [is_none |-> TRUE]

\* The exception the except clause catches for a failed attempt: what the
\* remote call raised, or ValueError("Empty response from Gemini")
CaughtException(outcome) ==
    IF outcome.kind = "raise" THEN [msg |-> outcome.msg]
    ELSE [msg |-> "Empty response from Gemini"]

\* Mutation of ExhaustedResult: the result of a failed analysis carries no error
ExhaustedResult_NoError(doc, last_err) ==
    PdfAnalysisResult(doc.filename, <<>>, <<>>, <<>>, <<>>, <<>>, None)

\* "All retries failed": error=str(last_error) if last_error else "Unknown error"
ExhaustedResult(doc, last_err) ==
    PdfAnalysisResult(doc.filename, <<>>, <<>>, <<>>, <<>>, <<>>,
                      IF last_err # NoError THEN last_err.msg ELSE "Unknown error")

\* Mutation of NextLastError: only the first failure is kept
NextLastError_KeepFirst(last_err, outcome) ==
    IF last_err = NoError THEN CaughtException(outcome) ELSE last_err

\* except Exception as e: last_error = e
NextLastError(last_err, outcome) == CaughtException(outcome)

\* Mutation of BackoffTenths: the same delay after every failed attempt
BackoffTenths_Constant(att) == RETRY_DELAY_SECONDS * 10

\* time.sleep argument after failed attempt number attempt (0-based), in tenths
BackoffTenths(att) == RETRY_DELAY_SECONDS * (att + 1) * 10


(***************************************************************************)
(* Inputs of the model                                                     *)
(***************************************************************************)
MaxDocs == 2

\* Values datetime.now().isoformat() returns: during a batch run, and in
\* direct calls of cache_result
RunTimestamps == {"t1"}
Timestamps == {"t1", "t2"}

TEXT_HELLO == <<"H","e","l","l","o","!">>
TEXT_BLANK == <<" ","\n">>
TEXT_HEY   == <<"H","e","y">>

DocA  == PdfDocument("in/a.pdf", "a.pdf", TEXT_HELLO, 1)
DocB  == PdfDocument("in/b.pdf", "b.pdf", TEXT_BLANK, 1)
DocA2 == PdfDocument("alt/a.pdf", "a.pdf", TEXT_HEY, 1)
DocPool == {DocA, DocB, DocA2}
Paths == {d.path : d \in DocPool}

RECURSIVE SeqsUpTo(_, _)
SeqsUpTo(S, n) ==
    IF n = 0 THEN {<<>>}
    ELSE LET shorter == SeqsUpTo(S, n - 1) IN
         shorter \cup {Append(q, x) : q \in {r \in shorter : Len(r) = n - 1}, x \in S}

Configs == {[model_name |-> "gemini-2.0-flash", max_chars_per_doc |-> 4]}

\* response.text values of a remote call that returns
RESP_SECTIONS ==
    <<"S","U","M","M","A","R","Y",":","\n","A"," ","t","e","s","t",".","\n","\n",
      "K","E","Y","W","O","R","D","S",":","\n","a",","," ","b",","," ","c">>
RESP_PLAIN == <<"o","k">>
Responses == {RESP_SECTIONS, RESP_PLAIN}

\* Outcomes of client.models.generate_content
Successes == {[kind |-> "text", text |-> r] : r \in Responses}
Failures  == {[kind |-> "raise", msg |-> "API Error"], [kind |-> "text", text |-> <<>>]}

InitDisk == [p \in Paths |-> "bytes1"]

\* Caches a run starts from: entries earlier runs recorded with cache_result
PriorCaches ==
    { <<>>,
      cache_result(<<>>, DocA, _parse_response(RESP_PLAIN, "a.pdf"), InitDisk, "t0"),
      cache_result(cache_result(<<>>, DocB, EmptyDocumentResult(DocB), InitDisk, "t0"),
                   DocA, ExhaustedResult(DocA, [msg |-> "API Error"]),
                   [InitDisk EXCEPT !["in/a.pdf"] = "bytes2"], "t0") }

(***************************************************************************)
(* analyzer.py: analyze_documents, as a state machine                      *)
(***************************************************************************)
VARIABLES
    documents,      \* the documents argument
    config,         \* AppConfig fields the analyzer reads
    cache_enabled,  \* cache is not None
    cache,          \* the cache dict: filename -> entry
    disk,           \* path -> bytes of the file, or Missing
    pc,             \* position in analyze_documents
    cur,            \* number of the document being processed (1-based)
    attempt,        \* loop variable of the retry loop
    last_error,     \* last_error of analyze_document
    prompt,         \* prompt of analyze_document
    results,        \* results list
    cached_count,   \* cached_count
    report,         \* what the final logger.info reports
    ev,             \* effects of processing document cur, in order
    cache_file,     \* the persisted cache file of the input directory
    prev_run,       \* what the previous run of the program returned and saved
    args,           \* command line and environment main was started with
    exit_code,      \* what main returned
    trace           \* the steps main has taken, in order

vars == <<documents, config, cache_enabled, cache, disk, pc, cur,
          attempt, last_error, prompt, results, cached_count, report, ev,
          cache_file, prev_run, args, exit_code, trace>>

\* State outside analyze_documents: it belongs to the command line's main
runvars == <<cache_file, prev_run, args, exit_code, trace>>

NoCacheFile == [exists |-> FALSE]
NoRun == [is_none |-> TRUE]
\* analyze_documents called directly: there is no command line
NoArgs == [is_none |-> TRUE]
\* main has not returned
NotExited == -1

NoPrompt == [is_none |-> TRUE]
NoReport == [is_none |-> TRUE]

Init ==
    /\ documents \in SeqsUpTo(DocPool, MaxDocs)
    /\ config \in Configs
    /\ cache_enabled \in BOOLEAN
    /\ cache \in (IF cache_enabled THEN PriorCaches ELSE {<<>>})
    /\ disk = InitDisk
    /\ pc = "next"
    /\ cur = 0
    /\ attempt = 0
    /\ last_error = NoError
    /\ prompt = NoPrompt
    /\ results = <<>>
    /\ cached_count = 0
    /\ report = NoReport
    /\ ev = <<>>
    /\ cache_file = NoCacheFile
    /\ prev_run = NoRun
    /\ args = NoArgs
    /\ exit_code = NotExited
    /\ trace = <<>>

\* Mutation of AppendResult: results.insert(0, result)
AppendResult_Prepend(rs, r) == <<r>> \o rs

\* results.append(result)
AppendResult(rs, r) == Append(rs, r)

\* cached_result of the loop body
Lookup(doc) ==
    IF cache_enabled THEN get_cached_result(cache, doc, disk) ELSE NoResult

LookupEvent(hit) == IF cache_enabled THEN <<[op |-> "lookup", hit |-> hit]>> ELSE <<>>

\* Mutation of CacheHit: the pacing sleep is taken after a cache hit too
CacheHit_Paced ==
    /\ UNCHANGED runvars
    /\ pc = "next" /\ cur < Len(documents)
    /\ LET doc == documents[cur + 1] IN
       /\ Lookup(doc) # NoResult /\ Lookup(doc) # LookupRaised
       /\ results' = AppendResult(results, Lookup(doc))
    /\ cached_count' = cached_count + 1
    /\ cur' = cur + 1
    /\ ev' = LookupEvent(TRUE) \o <<[op |-> "sleep", kind |-> "pacing", tenths |-> PACING_DELAY_TENTHS]>>
    /\ UNCHANGED <<documents, config, cache_enabled, cache, disk, pc,
                   attempt, last_error, prompt, report>>

\* for doc in iterator: cache hit
CacheHit ==
    /\ UNCHANGED runvars
    /\ pc = "next" /\ cur < Len(documents)
    /\ LET doc == documents[cur + 1] IN
       /\ Lookup(doc) # NoResult /\ Lookup(doc) # LookupRaised
       /\ results' = AppendResult(results, Lookup(doc))
    /\ cached_count' = cached_count + 1
    /\ cur' = cur + 1
    /\ ev' = LookupEvent(TRUE)
    /\ UNCHANGED <<documents, config, cache_enabled, cache, disk, pc,
                   attempt, last_error, prompt, report>>

\* for doc in iterator: no cached result, analyze_document is called
CacheMiss ==
    /\ UNCHANGED runvars
    /\ pc = "next" /\ cur < Len(documents)
    /\ Lookup(documents[cur + 1]) = NoResult
    /\ cur' = cur + 1
    /\ ev' = LookupEvent(FALSE)
    /\ pc' = "analyze"
    /\ UNCHANGED <<documents, config, cache_enabled, cache, disk,
                   attempt, last_error, prompt, results, cached_count, report>>

\* Mutation of EmptyDocument: a document without text is sent to the model too
EmptyDocument_StillCalls ==
    /\ UNCHANGED runvars
    /\ pc = "analyze"
    /\ IsEmptyText(documents[cur].text)
    /\ prompt' = BuildPrompt(TruncateText(documents[cur].text, config.max_chars_per_doc))
    /\ attempt' = 0
    /\ last_error' = NoError
    /\ pc' = "attempt"
    /\ UNCHANGED <<documents, config, cache_enabled, cache, disk, cur,
                   results, cached_count, report, ev>>

\* analyze_document: "Handle empty documents"
EmptyDocument ==
    /\ UNCHANGED runvars
    /\ pc = "analyze"
    /\ IsEmptyText(documents[cur].text)
    /\ results' = AppendResult(results, EmptyDocumentResult(documents[cur]))
    /\ pc' = "record"
    /\ UNCHANGED <<documents, config, cache_enabled, cache, disk, cur,
                   attempt, last_error, prompt, cached_count, report, ev>>

\* analyze_document: truncate, build the prompt, enter the retry loop
BuildRequest ==
    /\ UNCHANGED runvars
    /\ pc = "analyze"
    /\ ~IsEmptyText(documents[cur].text)
    /\ prompt' = BuildPrompt(TruncateText(documents[cur].text, config.max_chars_per_doc))
    /\ attempt' = 0
    /\ last_error' = NoError
    /\ pc' = "attempt"
    /\ UNCHANGED <<documents, config, cache_enabled, cache, disk, cur,
                   results, cached_count, report, ev>>

\* What the run did for document cur, as it happened: a remote call with its
\* arguments and what came back, a sleep, the lookup, the cache_result call
CallEvent(outcome) ==
    [op |-> "call", attempt |-> attempt + 1, model |-> config.model_name,
     contents |-> prompt, outcome |-> outcome]
SleepEvent(kind, tenths) == [op |-> "sleep", kind |-> kind, tenths |-> tenths]

\* Mutation of AttemptSuccess: the result is parsed but not returned, the loop
\* goes on to the next attempt
AttemptSuccess_NoReturn ==
    /\ UNCHANGED runvars
    /\ pc = "attempt" /\ attempt < MAX_RETRIES
    /\ \E outcome \in Successes : ev' = Append(ev, CallEvent(outcome))
    /\ attempt' = attempt + 1
    /\ UNCHANGED <<documents, config, cache_enabled, cache, disk, pc, cur,
                   last_error, prompt, results, cached_count, report>>

\* One attempt whose response has text: parse and return
AttemptSuccess ==
    /\ UNCHANGED runvars
    /\ pc = "attempt" /\ attempt < MAX_RETRIES
    /\ \E outcome \in Successes :
          /\ results' = AppendResult(results,
                            _parse_response(outcome.text, documents[cur].filename))
          /\ ev' = Append(ev, CallEvent(outcome))
    /\ pc' = "record"
    /\ attempt' = 0 /\ last_error' = NoError /\ prompt' = NoPrompt
    /\ UNCHANGED <<documents, config, cache_enabled, cache, disk, cur,
                   cached_count, report>>

\* Mutation of AttemptFail: a response without text is retried at once, the
\* backoff sleep is taken only after an attempt that raised
AttemptFail_EmptyNoBackoff ==
    /\ UNCHANGED runvars
    /\ pc = "attempt" /\ attempt < MAX_RETRIES
    /\ \E outcome \in Failures :
          /\ last_error' = NextLastError(last_error, outcome)
          /\ ev' = ev \o <<CallEvent(outcome)>> \o
                   (IF attempt < MAX_RETRIES - 1 /\ outcome.kind = "raise"
                    THEN <<SleepEvent("backoff", BackoffTenths(attempt))>> ELSE <<>>)
    /\ attempt' = attempt + 1
    /\ UNCHANGED <<documents, config, cache_enabled, cache, disk, pc, cur,
                   prompt, results, cached_count, report>>

\* One attempt that raises or returns no text: the except clause
AttemptFail ==
    /\ UNCHANGED runvars
    /\ pc = "attempt" /\ attempt < MAX_RETRIES
    /\ \E outcome \in Failures :
          /\ last_error' = NextLastError(last_error, outcome)
          /\ ev' = ev \o <<CallEvent(outcome)>> \o
                   (IF attempt < MAX_RETRIES - 1
                    THEN <<SleepEvent("backoff", BackoffTenths(attempt))>> ELSE <<>>)
    /\ attempt' = attempt + 1
    /\ UNCHANGED <<documents, config, cache_enabled, cache, disk, pc, cur,
                   prompt, results, cached_count, report>>

\* The retry loop ran out: "All retries failed"
Exhausted ==
    /\ UNCHANGED runvars
    /\ pc = "attempt" /\ attempt = MAX_RETRIES
    /\ results' = AppendResult(results, ExhaustedResult(documents[cur], last_error))
    /\ pc' = "record"
    /\ attempt' = 0 /\ last_error' = NoError /\ prompt' = NoPrompt
    /\ UNCHANGED <<documents, config, cache_enabled, cache, disk, cur,
                   cached_count, report, ev>>

\* cache_result assigned the entry: the file was hashed and the store is a dict
Stored(c, doc, fs) == _compute_file_hash(fs, doc.path) # HashError /\ ~IsPyList(c)

\* Mutation of Record: only a successful result is recorded
Record_OnlySuccessful ==
    /\ UNCHANGED runvars
    /\ pc = "record"
    /\ IF cache_enabled /\ is_successful(results[cur])
       THEN \E now \in RunTimestamps :
              /\ cache' = cache_result(cache, documents[cur], results[cur], disk, now)
              /\ ev' = Append(ev, [op |-> "record",
                                   stored |-> Stored(cache, documents[cur], disk)])
       ELSE UNCHANGED <<cache, ev>>
    /\ pc' = "pace"
    /\ UNCHANGED <<documents, config, cache_enabled, disk, cur, attempt,
                   last_error, prompt, results, cached_count, report>>

\* Mutation of Record: the cache file is written after every cache_result
Record_SavesEachTime ==
    /\ UNCHANGED <<prev_run, args, exit_code, trace>>
    /\ pc = "record"
    /\ IF cache_enabled
       THEN \E now \in RunTimestamps :
              /\ cache' = cache_result(cache, documents[cur], results[cur], disk, now)
              /\ cache_file' = [exists |-> TRUE, content |-> cache']
              /\ ev' = Append(ev, [op |-> "record",
                                   stored |-> Stored(cache, documents[cur], disk)])
       ELSE UNCHANGED <<cache, ev, cache_file>>
    /\ pc' = "pace"
    /\ UNCHANGED <<documents, config, cache_enabled, disk, cur, attempt,
                   last_error, prompt, results, cached_count, report>>

\* "Update cache": cache_result when a cache was passed (no cache_callback)
Record ==
    /\ UNCHANGED runvars
    /\ pc = "record"
    /\ IF cache_enabled
       THEN \E now \in RunTimestamps :
              /\ cache' = cache_result(cache, documents[cur], results[cur], disk, now)
              /\ ev' = Append(ev, [op |-> "record",
                                   stored |-> Stored(cache, documents[cur], disk)])
       ELSE UNCHANGED <<cache, ev>>
    /\ pc' = "pace"
    /\ UNCHANGED <<documents, config, cache_enabled, disk, cur, attempt,
                   last_error, prompt, results, cached_count, report>>

\* time.sleep(0.5) after a document that was analysed
Pace ==
    /\ UNCHANGED runvars
    /\ pc = "pace"
    /\ ev' = Append(ev, SleepEvent("pacing", PACING_DELAY_TENTHS))
    /\ pc' = "next"
    /\ UNCHANGED <<documents, config, cache_enabled, cache, disk, cur,
                   attempt, last_error, prompt, results, cached_count, report>>

\* sum(1 for r in results if r.is_successful)
CountSuccessful(rs) == Cardinality({i \in 1..Len(rs) : is_successful(rs[i])})

\* Mutation of Finish: the loop also ends at a document whose result has an error
Finish_StopAtFailure ==
    /\ UNCHANGED runvars
    /\ pc = "next"
    /\ \/ cur = Len(documents)
       \/ cur >= 1 /\ results[cur].error # None
    /\ report' = [successful |-> CountSuccessful(results), total |-> Len(documents),
                  cached |-> cached_count]
    /\ pc' = "done"
    /\ UNCHANGED <<documents, config, cache_enabled, cache, disk, cur,
                   attempt, last_error, prompt, results, cached_count, ev>>

\* Mutation of Finish: after the last document the loop starts over
Finish_StartsOver ==
    /\ UNCHANGED runvars
    /\ pc = "next" /\ cur = Len(documents)
    /\ cur' = 0
    /\ results' = <<>>
    /\ cached_count' = 0
    /\ ev' = <<>>
    /\ UNCHANGED <<documents, config, cache_enabled, cache, disk, pc,
                   attempt, last_error, prompt, report>>

\* The loop is over: log the counts and return results
Finish ==
    /\ UNCHANGED runvars
    /\ pc = "next" /\ cur = Len(documents)
    /\ report' = [successful |-> CountSuccessful(results), total |-> Len(documents),
                  cached |-> cached_count]
    /\ pc' = "done"
    /\ UNCHANGED <<documents, config, cache_enabled, cache, disk, cur,
                   attempt, last_error, prompt, results, cached_count, ev>>

\* Another process rewrites or removes a PDF while the batch runs. The batch
\* reads a file only in the lookup and in cache_result (and only when a cache
\* was passed), so all that writes to a path can change is what the next read
\* of it sees: the write is taken just before that read.
NextReadPath ==
    IF pc = "next" THEN documents[cur + 1].path ELSE documents[cur].path

WriteFile ==
    /\ UNCHANGED runvars
    /\ cache_enabled
    /\ \/ pc = "next" /\ cur < Len(documents)
       \/ pc = "record"
    /\ \E b \in Contents \cup {Missing} :
          /\ disk[NextReadPath] # b
          /\ disk' = [disk EXCEPT ![NextReadPath] = b]
    /\ UNCHANGED <<documents, config, cache_enabled, cache, pc, cur, attempt,
                   last_error, prompt, results, cached_count, report, ev>>

Next ==
    \/ CacheHit \/ CacheMiss \/ EmptyDocument \/ BuildRequest
    \/ AttemptSuccess \/ AttemptFail \/ Exhausted \/ Record \/ Pace \/ Finish
    \/ WriteFile

Spec == Init /\ [][Next]_vars

\* The steps analyze_documents itself takes. A lookup, an append and the
\* bookkeeping are straight-line code; a remote call returns or raises and a
\* sleep returns: a step that can be taken is eventually taken. Nothing is
\* assumed about the process that rewrites the files.
Step ==
    \/ CacheHit \/ CacheMiss \/ EmptyDocument \/ BuildRequest
    \/ AttemptFail \/ AttemptSuccess \/ Exhausted \/ Record \/ Pace \/ Finish

\* The files as another process left them before the run: a.pdf as it was
\* when an entry was recorded, rewritten, or removed
TerminationDisks == {[InitDisk EXCEPT !["in/a.pdf"] = b] : b \in Contents \cup {Missing}}

InitTerminates ==
    /\ documents \in SeqsUpTo(DocPool, MaxDocs)
    /\ config \in Configs
    /\ cache_enabled \in BOOLEAN
    /\ cache \in (IF cache_enabled THEN PriorCaches ELSE {<<>>})
    /\ disk \in TerminationDisks
    /\ pc = "next"
    /\ cur = 0
    /\ attempt = 0
    /\ last_error = NoError
    /\ prompt = NoPrompt
    /\ results = <<>>
    /\ cached_count = 0
    /\ report = NoReport
    /\ ev = <<>>
    /\ cache_file = NoCacheFile
    /\ prev_run = NoRun
    /\ args = NoArgs
    /\ exit_code = NotExited
    /\ trace = <<>>

SpecTerminates == InitTerminates /\ [][Step]_vars /\ WF_vars(Step)

(***************************************************************************)
(* cache.py called directly, as tests/test_cache.py does: any sequence of  *)
(* cache_result, get_cached_result and rewrites of the files, on a dict    *)
(* that earlier runs filled or that was written by hand                    *)
(***************************************************************************)
MaxOps == 3

\* The file of DocA under another file name
DocRenamed == PdfDocument("in/a.pdf", "renamed.pdf", TEXT_HELLO, 1)
ApiDocs == {DocA, DocA2, DocRenamed}
ApiResults == {_parse_response(RESP_SECTIONS, "a.pdf"),
               ExhaustedResult(DocB, [msg |-> "API Error"])}

\* tests/test_cache.py, test_save_and_load_cache: an entry with three keys
HandWrittenCache ==
    "a.pdf" :> [filename |-> "a.pdf", summary |-> <<"T">>, file_hash |-> "md5-1"]

ApiCaches == PriorCaches \cup {HandWrittenCache}

InitCache ==
    /\ documents = <<>>
    /\ config \in Configs
    /\ cache_enabled = TRUE
    /\ cache \in ApiCaches
    /\ disk = InitDisk
    /\ pc = "api"
    /\ cur = 0
    /\ attempt = 0
    /\ last_error = NoError
    /\ prompt = NoPrompt
    /\ results = <<>>
    /\ cached_count = 0
    /\ report = NoReport
    /\ ev = <<>>
    /\ cache_file = NoCacheFile
    /\ prev_run = NoRun
    /\ args = NoArgs
    /\ exit_code = NotExited
    /\ trace = <<>>

ApiUnchanged == <<documents, config, cache_enabled, pc, cur, attempt, last_error,
                  prompt, results, cached_count, report, cache_file, prev_run,
                  args, exit_code, trace>>

\* cache_result(cache, doc, result)
ApiCacheResult ==
    /\ pc = "api" /\ Len(ev) < MaxOps
    /\ \E doc \in ApiDocs, result \in ApiResults, now \in Timestamps :
          /\ cache' = cache_result(cache, doc, result, disk, now)
          /\ ev' = Append(ev, [op |-> "cache_result", doc |-> doc, result |-> result,
                               bytes |-> disk[doc.path], cache_after |-> cache'])
    /\ UNCHANGED disk
    /\ UNCHANGED ApiUnchanged

\* get_cached_result(cache, doc)
ApiGetCachedResult ==
    /\ pc = "api" /\ Len(ev) < MaxOps
    /\ \E doc \in ApiDocs :
          ev' = Append(ev, [op |-> "get_cached_result", doc |-> doc,
                            returned |-> get_cached_result(cache, doc, disk),
                            bytes |-> disk[doc.path]])
    /\ UNCHANGED <<cache, disk>>
    /\ UNCHANGED ApiUnchanged

\* sample_doc.path.write_bytes(...), or the file is removed
ApiWriteFile ==
    /\ pc = "api" /\ Len(ev) < MaxOps
    /\ \E p \in {d.path : d \in ApiDocs}, b \in Contents \cup {Missing} :
          /\ disk[p] # b
          /\ disk' = [disk EXCEPT ![p] = b]
          /\ ev' = Append(ev, [op |-> "write", path |-> p, bytes |-> b])
    /\ UNCHANGED cache
    /\ UNCHANGED ApiUnchanged

NextCache == ApiCacheResult \/ ApiGetCachedResult \/ ApiWriteFile

SpecCache == InitCache /\ [][NextCache]_vars

(***************************************************************************)
(* _parse_response called directly, as tests/test_analyzer.py does, on     *)
(* responses built from sections in the format the prompt asks for and on  *)
(* responses that ignore the format; the parsed result is then recorded in *)
(* the cache and looked up again                                           *)
(***************************************************************************)
MaxSections == 3

SectionNames == {"summary", "key_entities", "action_items", "keywords"}
\* "below": the header on its own line, the content on the lines after it;
\* "inline": indented, in mixed case, content on the header's line
SectionStyles == {"below", "inline"}

MIXED_SUMMARY      == <<" "," ","S","u","m","m","a","r","y",":">>
MIXED_KEY_ENTITIES == <<" "," ","K","e","y"," ","E","n","t","i","t","i","e","s",":">>
MIXED_ACTION_ITEMS == <<" "," ","A","c","t","i","o","n"," ","i","t","e","m","s",":">>
MIXED_KEYWORDS     == <<" "," ","k","e","y","w","o","r","d","s",":">>

BODY_SUMMARY      == <<<<"A"," ","t","e","s","t",".">>>>
BODY_KEY_ENTITIES == <<<<"B","o","b",","," ">>,<<" ","A","c","m","e">>>>
BODY_ACTION_ITEMS == <<<<"D","o"," ","i","t">>>>
BODY_KEYWORDS     == <<<<"a",","," ","b",","," ","c">>>>

SectionHeader(name, style) ==
    IF style = "below"
    THEN CASE name = "summary" -> HDR_SUMMARY
           [] name = "key_entities" -> HDR_KEY_ENTITIES
           [] name = "action_items" -> HDR_ACTION_ITEMS
           [] name = "keywords" -> HDR_KEYWORDS
    ELSE CASE name = "summary" -> MIXED_SUMMARY
           [] name = "key_entities" -> MIXED_KEY_ENTITIES
           [] name = "action_items" -> MIXED_ACTION_ITEMS
           [] name = "keywords" -> MIXED_KEYWORDS

SectionBody(name) ==
    CASE name = "summary" -> BODY_SUMMARY
      [] name = "key_entities" -> BODY_KEY_ENTITIES
      [] name = "action_items" -> BODY_ACTION_ITEMS
      [] name = "keywords" -> BODY_KEYWORDS

\* The lines of one section of a response
SectionLines(sec) ==
    IF sec.style = "below"
    THEN <<SectionHeader(sec.name, sec.style)>> \o SectionBody(sec.name)
    ELSE <<SectionHeader(sec.name, sec.style) \o <<" ">> \o Head(SectionBody(sec.name))>>
         \o Tail(SectionBody(sec.name))

\* The sections one after the other, a blank line between two of them
RECURSIVE ResponseLines(_)
ResponseLines(secs) ==
    IF secs = <<>> THEN <<>>
    ELSE IF Len(secs) = 1 THEN SectionLines(Head(secs))
    ELSE SectionLines(Head(secs)) \o << <<>> >> \o ResponseLines(Tail(secs))

\* "\n".join(lines)
RECURSIVE JoinLines(_)
JoinLines(lines) ==
    IF lines = <<>> THEN <<>>
    ELSE IF Len(lines) = 1 THEN Head(lines)
    ELSE Head(lines) \o <<"\n">> \o JoinLines(Tail(lines))

\* Any sections in any order, repeated ones included, up to MaxSections of them
SectionSeqs ==
    SeqsUpTo({[name |-> n, style |-> s] : n \in SectionNames, s \in SectionStyles},
             MaxSections)

\* All four sections, each once, in every order, in one style throughout
FullSectionSeqs ==
    LET n == Cardinality(SectionNames)
        orders == {p \in [1..n -> SectionNames] : \A i, j \in 1..n : i # j => p[i] # p[j]}
    IN  {[i \in 1..n |-> [name |-> p[i], style |-> s]] : p \in orders, s \in SectionStyles}

\* Responses without any recognised header: empty, blank, short, with the
\* word SUMMARY: inside a line, and of 500 and 501 characters
LongText(n) == [i \in 1..n |-> "x"]
TEXT_NOT_A_HEADER == <<"I","n"," ","S","U","M","M","A","R","Y",":"," ","n","o","n","e","\n","K","E","Y","W","O","R","D","S"," ","a",","," ","b">>
PlainTexts ==
    {<<>>, <<" ">>, RESP_PLAIN, TEXT_NOT_A_HEADER,
     LongText(FALLBACK_CHARS), LongText(FALLBACK_CHARS + 1)}

ParseInputs ==
    {[sections |-> secs, text |-> JoinLines(ResponseLines(secs))] :
        secs \in SectionSeqs \cup FullSectionSeqs}
    \cup {[sections |-> <<>>, text |-> t] : t \in PlainTexts}

InitParse ==
    /\ documents = <<DocA>>
    /\ config \in Configs
    /\ cache_enabled = TRUE
    /\ cache = <<>>
    /\ disk = InitDisk
    /\ pc = "parse"
    /\ cur = 1
    /\ attempt = 0
    /\ last_error = NoError
    /\ prompt = NoPrompt
    /\ results = <<>>
    /\ cached_count = 0
    /\ report = NoReport
    /\ ev = <<>>
    /\ cache_file = NoCacheFile
    /\ prev_run = NoRun
    /\ args = NoArgs
    /\ exit_code = NotExited
    /\ trace = <<>>

\* result = _parse_response(response_text, "a.pdf")
ParseCall ==
    /\ pc = "parse" /\ ev = <<>>
    /\ \E input \in ParseInputs :
          ev' = <<[op |-> "_parse_response", sections |-> input.sections,
                   response_text |-> input.text, filename |-> documents[cur].filename,
                   returned |-> _parse_response(input.text, documents[cur].filename)]>>
    /\ UNCHANGED <<cache, disk>>
    /\ UNCHANGED ApiUnchanged

\* cache_result(cache, doc, result) with the result just parsed
ParseRecord ==
    /\ pc = "parse" /\ Len(ev) = 1
    /\ \E now \in RunTimestamps :
          /\ cache' = cache_result(cache, documents[cur], ev[1].returned, disk, now)
          /\ ev' = Append(ev, [op |-> "cache_result", doc |-> documents[cur],
                               result |-> ev[1].returned, cache_after |-> cache'])
    /\ UNCHANGED disk
    /\ UNCHANGED ApiUnchanged

\* get_cached_result(cache, doc) after it
ParseLookup ==
    /\ pc = "parse" /\ Len(ev) = 2
    /\ ev' = Append(ev, [op |-> "get_cached_result", doc |-> documents[cur],
                         returned |-> get_cached_result(cache, documents[cur], disk)])
    /\ UNCHANGED <<cache, disk>>
    /\ UNCHANGED ApiUnchanged

NextParse == ParseCall \/ ParseRecord \/ ParseLookup

SpecParse == InitParse /\ [][NextParse]_vars

(***************************************************************************)
(* cache.py: load_cache, save_cache and clear_cache. The cache file holds  *)
(* JSON text: an object of entry objects whose values are strings, an      *)
(* array of strings (keywords) or null (error of a successful result); or, *)
(* written by something else, text that is not JSON or JSON that is not an *)
(* object.                                                                 *)
(***************************************************************************)
\* json.dump of one value of an entry
JsonOfValue(key, v) ==
    IF key = "keywords" THEN [json |-> "array", items |-> v]
    ELSE IF key = "error" /\ v = None THEN [json |-> "null"]
    ELSE [json |-> "string", value |-> v]

\* json.dump(cache, f, ensure_ascii=False, indent=2)
json_dump(c) ==
    IF IsPyList(c) THEN [json |-> "array", items |-> c.py_list]
    ELSE [f \in DOMAIN c |-> [k \in DOMAIN c[f] |-> JsonOfValue(k, c[f][k])]]

\* json.load of one value
PyOfJson(j) ==
    CASE j.json = "null" -> None
      [] j.json = "array" -> j.items
      [] j.json = "string" -> j.value

\* json.load(f): a dict for an object, a list for an array
json_load(text) ==
    IF DOMAIN text = {"json", "items"} THEN PyList(text.items)
    ELSE [f \in DOMAIN text |-> [k \in DOMAIN text[f] |-> PyOfJson(text[f][k])]]

CacheFileOf(c) ==
    [exists |-> TRUE, readable |-> TRUE, malformed |-> FALSE, content |-> json_dump(c)]
\* What a json.dump that raised part-way leaves behind: not JSON
TruncatedCacheFile == [exists |-> TRUE, readable |-> TRUE, malformed |-> TRUE]
\* A file open() cannot read
UnreadableCacheFile == [exists |-> TRUE, readable |-> FALSE, malformed |-> FALSE]
\* A file holding the JSON array ["a.pdf"]
ListCacheFile == CacheFileOf(PyList(<<"a.pdf">>))

\* load_cache: {} when the file is absent or when open or json.load raises,
\* else whatever json.load returned
load_cache(file) ==
    IF ~file.exists THEN <<>>
    ELSE IF ~file.readable \/ file.malformed THEN <<>>
    ELSE json_load(file.content)

\* Outcomes of save_cache: cache_dir.mkdir raises (before the try block), or
\* open or json.dump raises (logged and swallowed), or the file is written
SaveOutcomes == {"written", "open_failed", "dump_failed", "mkdir_failed"}

\* save_cache raises instead of returning
SaveRaises(outcome) == outcome = "mkdir_failed"

\* save_cache: the cache file after the call
save_cache(file, c, outcome) ==
    CASE outcome = "written" -> CacheFileOf(c)
      [] outcome = "open_failed" -> file
      [] outcome = "dump_failed" -> TruncatedCacheFile
      [] outcome = "mkdir_failed" -> file

\* Outcomes of cache_path.unlink() in clear_cache
ClearOutcomes == {"unlinked", "unlink_failed"}

\* Mutation of clear_cache: True is returned whether or not a file existed
clear_cache_AlwaysTrue(file, outcome) ==
    IF file.exists /\ outcome = "unlink_failed"
    THEN [file |-> file, raised |-> TRUE, returned |-> FALSE]
    ELSE [file |-> NoCacheFile, raised |-> FALSE, returned |-> TRUE]

\* clear_cache: the cache file after the call, whether the call raised, and
\* what it returned if it did not
clear_cache(file, outcome) ==
    IF ~file.exists THEN [file |-> file, raised |-> FALSE, returned |-> FALSE]
    ELSE IF outcome = "unlink_failed"
         THEN [file |-> file, raised |-> TRUE, returned |-> FALSE]
    ELSE [file |-> NoCacheFile, raised |-> FALSE, returned |-> TRUE]

(***************************************************************************)
(* config.py: load_config                                                  *)
(***************************************************************************)
\* os.getenv("MAX_CHARS_PER_DOC", "15000") as int() sees it: the text of an
\* integer, or text int() raises ValueError on
EnvMaxChars == {[valid |-> TRUE, value |-> 4], [valid |-> FALSE]}

ConfigError == [raised |-> "ValueError"]
NoConfig == [is_none |-> TRUE]

\* Mutation of load_config: a missing GEMINI_API_KEY is not checked
load_config_NoKeyCheck(a) ==
    IF ~a.max_chars_env.valid THEN ConfigError
    ELSE [model_name |-> "gemini-2.0-flash", max_chars_per_doc |-> a.max_chars_env.value]

\* load_config: the AppConfig fields the analyzer reads, or the ValueError
load_config(a) ==
    IF ~a.api_key THEN ConfigError
    ELSE IF ~a.max_chars_env.valid THEN ConfigError
    ELSE [model_name |-> "gemini-2.0-flash", max_chars_per_doc |-> a.max_chars_env.value]

(***************************************************************************)
(* cli.py, main: the steps of one run, each with the exception it may      *)
(* raise, and the program run a second time over the same input directory, *)
(* whose files keep their bytes                                            *)
(***************************************************************************)
\* pdf_loader.py, extract_text on one file: the text and the page count, or
\* an exception (PdfReader cannot read the file)
Extracted(text, page_count) == [raised |-> FALSE, text |-> text, page_count |-> page_count]
ExtractionRaised == [raised |-> TRUE]

\* A PDF file of the input directory and what extract_text does on it
PdfFile(path, extraction) == [path |-> path, extraction |-> extraction]

\* Path.name: what follows the last "/"
PathName(path) ==
    CASE path = "in/a.pdf" -> "a.pdf"
      [] path = "in/b.pdf" -> "b.pdf"
      [] path = "in/bad.pdf" -> "bad.pdf"
      [] path = "in/c.pdf" -> "c.pdf"

\* Mutation of LoadDocument: a file whose extraction raises is left out
LoadDocument_SkipUnreadable(pdf_path) ==
    IF pdf_path.extraction.raised
    THEN <<>>
    ELSE <<PdfDocument(pdf_path.path, PathName(pdf_path.path),
                       pdf_path.extraction.text, pdf_path.extraction.page_count)>>

\* pdf_loader.py, load_pdfs, the body of the loop: the documents appended for
\* one file (always one)
LoadDocument(pdf_path) ==
    IF pdf_path.extraction.raised
    THEN <<PdfDocument(pdf_path.path, PathName(pdf_path.path), <<>>, 0)>>
    ELSE <<PdfDocument(pdf_path.path, PathName(pdf_path.path),
                       pdf_path.extraction.text, pdf_path.extraction.page_count)>>

\* pdf_loader.py, load_pdfs, the loop over pdf_files (after the max_docs cut)
RECURSIVE load_pdfs(_)
load_pdfs(pdf_files) ==
    IF pdf_files = <<>> THEN <<>>
    ELSE load_pdfs(SubSeq(pdf_files, 1, Len(pdf_files) - 1))
         \o LoadDocument(pdf_files[Len(pdf_files)])

\* The files of the input directory, sorted by lowercased name; bad.pdf
\* cannot be read, c.pdf has text as a.pdf has
FileA   == PdfFile("in/a.pdf", Extracted(TEXT_HELLO, 1))
FileB   == PdfFile("in/b.pdf", Extracted(TEXT_BLANK, 1))
FileBad == PdfFile("in/bad.pdf", ExtractionRaised)
FileC   == PdfFile("in/c.pdf", Extracted(TEXT_HEY, 1))
RunFileSeq == <<FileA, FileB, FileBad, FileC>>
DocBad == PdfDocument("in/bad.pdf", "bad.pdf", <<>>, 0)
DocC == PdfDocument("in/c.pdf", "c.pdf", TEXT_HEY, 1)

\* list_pdf_files and the max_docs cut: the files listed, in listing order,
\* at most MaxDocs of them
Listing(S) ==
    [k \in 1..Cardinality(S) |->
        RunFileSeq[CHOOSE i \in S : Cardinality({j \in S : j < i}) = k - 1]]
RunFileLists ==
    {Listing(S) : S \in {T \in SUBSET (1..Len(RunFileSeq)) : Cardinality(T) <= MaxDocs}}

RunDisks ==
    {[p \in {RunFileSeq[i].path : i \in 1..Len(RunFileSeq)} |->
        IF p = DocA.path THEN a ELSE "bytes1"] : a \in Contents}

\* One step of main: the function called and the exception it raised, if any
TraceEvent(op, raised) == [op |-> op, raised |-> raised]

\* Command line and environment of a run: GEMINI_API_KEY set, MAX_CHARS_PER_DOC,
\* --clear-cache, --no-cache, what the input directory path names and the PDF
\* files in it
ArgsOf(key, chars, clear, nocache, dir, listing) ==
    [api_key |-> key, max_chars_env |-> chars, clear_cache |-> clear,
     no_cache |-> nocache, input_dir |-> dir, listing |-> listing]

InputDirs == {"dir", "missing", "file"}

\* The steps of main before "Load cache", when they went through
LoadedTrace == <<TraceEvent("load_config", None), TraceEvent("load_pdfs", None)>>

InitRuns ==
    /\ config \in Configs
    /\ cache_enabled = FALSE
    /\ cache = <<>>
    /\ disk \in RunDisks
    /\ pc = "load"
    /\ cur = 0
    /\ attempt = 0
    /\ last_error = NoError
    /\ prompt = NoPrompt
    /\ results = <<>>
    /\ cached_count = 0
    /\ report = NoReport
    /\ ev = <<>>
    /\ cache_file \in {NoCacheFile, TruncatedCacheFile} \cup {CacheFileOf(c) : c \in ApiCaches}
    /\ prev_run = NoRun
    /\ \E listing \in RunFileLists \ {<<>>}, nocache \in BOOLEAN :
          /\ documents = load_pdfs(listing)
          /\ args = ArgsOf(TRUE, [valid |-> TRUE, value |-> config.max_chars_per_doc],
                           FALSE, nocache, "dir", listing)
    /\ exit_code = NotExited
    /\ trace = LoadedTrace

loopvars == <<cur, attempt, last_error, prompt, results, cached_count, report, ev>>

\* "Load configuration": load_config raises ValueError or returns the config
MainLoadConfig ==
    /\ pc = "start"
    /\ IF load_config(args) = ConfigError
       THEN /\ trace' = Append(trace, TraceEvent("load_config", "ValueError"))
            /\ exit_code' = 1
            /\ pc' = "exit"
            /\ UNCHANGED config
       ELSE /\ config' = load_config(args)
            /\ trace' = Append(trace, TraceEvent("load_config", None))
            /\ pc' = (IF args.clear_cache THEN "clear" ELSE "load_pdfs")
            /\ UNCHANGED exit_code
    /\ UNCHANGED <<documents, cache_enabled, cache, disk, cache_file, prev_run, args>>
    /\ UNCHANGED loopvars

\* Mutation of MainClearCache: after clearing, main goes on with the pipeline
MainClearCache_ThenContinue ==
    /\ pc = "clear"
    /\ \E outcome \in ClearOutcomes :
          LET r == clear_cache(cache_file, outcome) IN
          /\ cache_file' = r.file
          /\ trace' = Append(trace, [op |-> "clear_cache",
                                     raised |-> IF r.raised THEN "OSError" ELSE None,
                                     returned |-> r.returned])
          /\ IF r.raised THEN exit_code' = 1 /\ pc' = "exit"
                         ELSE pc' = "load_pdfs" /\ UNCHANGED exit_code
    /\ UNCHANGED <<documents, config, cache_enabled, cache, disk, prev_run, args>>
    /\ UNCHANGED loopvars

\* "Handle clear-cache command"
MainClearCache ==
    /\ pc = "clear"
    /\ \E outcome \in ClearOutcomes :
          LET r == clear_cache(cache_file, outcome) IN
          /\ cache_file' = r.file
          /\ trace' = Append(trace, [op |-> "clear_cache",
                                     raised |-> IF r.raised THEN "OSError" ELSE None,
                                     returned |-> r.returned])
          /\ exit_code' = (IF r.raised THEN 1 ELSE 0)
    /\ pc' = "exit"
    /\ UNCHANGED <<documents, config, cache_enabled, cache, disk, prev_run, args>>
    /\ UNCHANGED loopvars

\* "Load PDFs": list_pdf_files raises for a missing directory or a path that
\* is not a directory; no documents ends the run
MainLoadPdfs ==
    /\ pc = "load_pdfs"
    /\ CASE args.input_dir = "missing" ->
              /\ trace' = Append(trace, TraceEvent("load_pdfs", "FileNotFoundError"))
              /\ exit_code' = 1 /\ pc' = "exit"
              /\ UNCHANGED documents
         [] args.input_dir = "file" ->
              /\ trace' = Append(trace, TraceEvent("load_pdfs", "ValueError"))
              /\ exit_code' = 1 /\ pc' = "exit"
              /\ UNCHANGED documents
         [] args.input_dir = "dir" ->
              /\ documents' = load_pdfs(args.listing)
              /\ trace' = Append(trace, TraceEvent("load_pdfs", None))
              /\ IF load_pdfs(args.listing) = <<>>
                 THEN exit_code' = 0 /\ pc' = "exit"
                 ELSE pc' = "load" /\ UNCHANGED exit_code
    /\ UNCHANGED <<config, cache_enabled, cache, disk, cache_file, prev_run, args>>
    /\ UNCHANGED loopvars

\* Mutation of MainLoadCache: the cache is loaded and passed on whatever
\* --no-cache says
MainLoadCache_IgnoreNoCache ==
    /\ pc = "load"
    /\ cache_enabled' = TRUE
    /\ cache' = load_cache(cache_file)
    /\ trace' = Append(trace, TraceEvent("load_cache", None))
    /\ pc' = "client"
    /\ UNCHANGED <<documents, config, disk, cache_file, prev_run, args, exit_code>>
    /\ UNCHANGED loopvars

\* "Load cache (unless disabled)"
MainLoadCache ==
    /\ pc = "load"
    /\ cache_enabled' = ~args.no_cache
    /\ IF ~args.no_cache
       THEN /\ cache' = load_cache(cache_file)
            /\ trace' = Append(trace, TraceEvent("load_cache", None))
       ELSE UNCHANGED <<cache, trace>>
    /\ pc' = "client"
    /\ UNCHANGED <<documents, config, disk, cache_file, prev_run, args, exit_code>>
    /\ UNCHANGED loopvars

\* "Create Gemini client": genai.Client may raise
MainCreateClient ==
    /\ pc = "client"
    /\ \/ /\ trace' = Append(trace, TraceEvent("create_client", None))
          /\ pc' = "next"
          /\ UNCHANGED exit_code
       \/ /\ trace' = Append(trace, TraceEvent("create_client", "Exception"))
          /\ exit_code' = 1 /\ pc' = "exit"
    /\ UNCHANGED <<documents, config, cache_enabled, cache, disk, cache_file,
                   prev_run, args>>
    /\ UNCHANGED loopvars

\* for doc in iterator: get_cached_result raises, and so does analyze_documents
LookupRaises ==
    /\ pc = "next" /\ cur < Len(documents)
    /\ Lookup(documents[cur + 1]) = LookupRaised
    /\ trace' = Append(trace, TraceEvent("analyze_documents", LookupRaised.raised))
    /\ exit_code' = 1 /\ pc' = "exit"
    /\ UNCHANGED <<documents, config, cache_enabled, cache, disk, cache_file,
                   prev_run, args>>
    /\ UNCHANGED loopvars

\* "Save cache": save_cache when a cache was loaded
MainSaveCache ==
    /\ pc = "done"
    /\ IF cache_enabled
       THEN \E outcome \in SaveOutcomes :
              IF SaveRaises(outcome)
              THEN /\ trace' = Append(trace, [op |-> "save_cache", raised |-> "OSError",
                                              outcome |-> outcome])
                   /\ exit_code' = 1 /\ pc' = "exit"
                   /\ UNCHANGED <<cache_file, ev>>
              ELSE /\ cache_file' = save_cache(cache_file, cache, outcome)
                   /\ ev' = Append(ev, [op |-> "save_cache", outcome |-> outcome])
                   /\ trace' = Append(trace, [op |-> "save_cache", raised |-> None,
                                              outcome |-> outcome])
                   /\ pc' = "export"
                   /\ UNCHANGED exit_code
       ELSE /\ pc' = "export"
            /\ UNCHANGED <<cache_file, ev, trace, exit_code>>
    /\ UNCHANGED <<documents, config, cache_enabled, cache, disk, cur, attempt,
                   last_error, prompt, results, cached_count, report, prev_run, args>>

\* Mutation of MainExport: main returns 0 although export_results raised
MainExport_ZeroOnError ==
    /\ pc = "export"
    /\ \/ trace' = Append(trace, TraceEvent("export_results", None))
       \/ trace' = Append(trace, TraceEvent("export_results", "Exception"))
    /\ exit_code' = 0
    /\ pc' = "exit"
    /\ UNCHANGED <<documents, config, cache_enabled, cache, disk, cache_file,
                   prev_run, args>>
    /\ UNCHANGED loopvars

\* "Export results", the summary and return 0; export_results may raise
MainExport ==
    /\ pc = "export"
    /\ \/ /\ trace' = Append(trace, TraceEvent("export_results", None))
          /\ exit_code' = 0
       \/ /\ trace' = Append(trace, TraceEvent("export_results", "Exception"))
          /\ exit_code' = 1
    /\ pc' = "exit"
    /\ UNCHANGED <<documents, config, cache_enabled, cache, disk, cache_file,
                   prev_run, args>>
    /\ UNCHANGED loopvars

\* save_cache of the run that just ended wrote the file
SavedByRun ==
    \E i \in DOMAIN trace :
       trace[i].op = "save_cache" /\ trace[i].raised = None /\ trace[i].outcome = "written"

\* The program is started again with the same arguments
RunAgain ==
    /\ pc = "exit" /\ prev_run = NoRun
    /\ prev_run' = [results |-> results, cached_count |-> cached_count,
                    saved |-> SavedByRun]
    /\ pc' = "load"
    /\ cache_enabled' = FALSE
    /\ cache' = <<>>
    /\ cur' = 0
    /\ results' = <<>>
    /\ cached_count' = 0
    /\ report' = NoReport
    /\ ev' = <<>>
    /\ exit_code' = NotExited
    /\ trace' = LoadedTrace
    /\ UNCHANGED <<documents, config, disk, attempt, last_error, prompt,
                   cache_file, args>>

NextRuns ==
    \/ MainLoadCache \/ MainCreateClient
    \/ CacheHit \/ CacheMiss \/ EmptyDocument \/ BuildRequest
    \/ AttemptSuccess \/ AttemptFail \/ Exhausted \/ Record \/ Pace \/ Finish
    \/ MainSaveCache \/ MainExport \/ RunAgain

SpecRuns == InitRuns /\ [][NextRuns]_vars

(***************************************************************************)
(* cli.py, main, from its first statement: one run for every command line, *)
(* environment, input directory and cache file                             *)
(***************************************************************************)
CacheFiles ==
    {NoCacheFile, TruncatedCacheFile, UnreadableCacheFile, ListCacheFile}
    \cup {CacheFileOf(c) : c \in ApiCaches}

InitMain ==
    /\ documents = <<>>
    /\ config = NoConfig
    /\ cache_enabled = FALSE
    /\ cache = <<>>
    /\ disk \in RunDisks
    /\ pc = "start"
    /\ cur = 0
    /\ attempt = 0
    /\ last_error = NoError
    /\ prompt = NoPrompt
    /\ results = <<>>
    /\ cached_count = 0
    /\ report = NoReport
    /\ ev = <<>>
    /\ cache_file \in CacheFiles
    /\ prev_run = NoRun
    /\ args \in {ArgsOf(key, chars, clear, nocache, dir, listing) :
                    key \in BOOLEAN, chars \in EnvMaxChars, clear \in BOOLEAN,
                    nocache \in BOOLEAN, dir \in InputDirs,
                    listing \in RunFileLists}
    /\ exit_code = NotExited
    /\ trace = <<>>

NextMain ==
    \/ MainLoadConfig \/ MainClearCache \/ MainLoadPdfs
    \/ MainLoadCache \/ MainCreateClient
    \/ CacheHit \/ CacheMiss \/ LookupRaises \/ EmptyDocument \/ BuildRequest
    \/ AttemptSuccess \/ AttemptFail \/ Exhausted \/ Record \/ Pace \/ Finish
    \/ MainSaveCache \/ MainExport

SpecMain == InitMain /\ [][NextMain]_vars

(***************************************************************************)
(* cache.py called directly on the cache file of one directory, as         *)
(* tests/test_cache.py does: any sequence of save_cache, load_cache and    *)
(* clear_cache, starting from any content of the file                      *)
(***************************************************************************)
\* Stores handed to save_cache
SaveStores == {<<>>, HandWrittenCache}

InitFile ==
    /\ documents = <<>>
    /\ config \in Configs
    /\ cache_enabled = TRUE
    /\ cache = <<>>
    /\ disk = InitDisk
    /\ pc = "file"
    /\ cur = 0
    /\ attempt = 0
    /\ last_error = NoError
    /\ prompt = NoPrompt
    /\ results = <<>>
    /\ cached_count = 0
    /\ report = NoReport
    /\ ev = <<>>
    /\ cache_file \in CacheFiles
    /\ prev_run = NoRun
    /\ args = NoArgs
    /\ exit_code = NotExited
    /\ trace = <<>>

FileUnchanged == <<documents, config, cache_enabled, disk, pc, cur, attempt, last_error, prompt, results, cached_count, report, prev_run, args, exit_code, trace>>

\* save_cache(cache_dir, cache)
ApiSaveCache ==
    /\ pc = "file" /\ Len(ev) < MaxOps
    /\ \E c \in SaveStores, outcome \in SaveOutcomes :
          /\ cache_file' = save_cache(cache_file, c, outcome)
          /\ ev' = Append(ev, [op |-> "save_cache", store |-> c, outcome |-> outcome,
                               raised |-> SaveRaises(outcome),
                               file_before |-> cache_file, file_after |-> cache_file'])
    /\ UNCHANGED cache
    /\ UNCHANGED FileUnchanged

\* loaded = load_cache(cache_dir)
ApiLoadCache ==
    /\ pc = "file" /\ Len(ev) < MaxOps
    /\ cache' = load_cache(cache_file)
    /\ ev' = Append(ev, [op |-> "load_cache", returned |-> cache', raised |-> FALSE,
                         file_before |-> cache_file, file_after |-> cache_file])
    /\ UNCHANGED cache_file
    /\ UNCHANGED FileUnchanged

\* result = clear_cache(cache_dir)
ApiClearCache ==
    /\ pc = "file" /\ Len(ev) < MaxOps
    /\ \E outcome \in ClearOutcomes :
          LET r == clear_cache(cache_file, outcome) IN
          /\ cache_file' = r.file
          /\ ev' = Append(ev, [op |-> "clear_cache", returned |-> r.returned,
                               raised |-> r.raised,
                               file_before |-> cache_file, file_after |-> r.file])
    /\ UNCHANGED cache
    /\ UNCHANGED FileUnchanged

NextFile == ApiSaveCache \/ ApiLoadCache \/ ApiClearCache

SpecFile == InitFile /\ [][NextFile]_vars

(***************************************************************************)
(* analyze_document on one document without a cache, as                    *)
(* tests/test_analyzer.py calls it, for the values max_chars_per_doc can   *)
(* take: load_config passes on any integer MAX_CHARS_PER_DOC holds         *)
(***************************************************************************)
\* Budgets below, at and above the lengths of the texts, zero and negative
MaxCharsValues == {-7, -2, 0, 4, 6, 7}
DocConfigs ==
    {[model_name |-> "gemini-2.0-flash", max_chars_per_doc |-> n] : n \in MaxCharsValues}

InitDoc ==
    /\ documents \in {<<d>> : d \in DocPool}
    /\ config \in DocConfigs
    /\ cache_enabled = FALSE
    /\ cache = <<>>
    /\ disk = InitDisk
    /\ pc = "next"
    /\ cur = 0
    /\ attempt = 0
    /\ last_error = NoError
    /\ prompt = NoPrompt
    /\ results = <<>>
    /\ cached_count = 0
    /\ report = NoReport
    /\ ev = <<>>
    /\ cache_file = NoCacheFile
    /\ prev_run = NoRun
    /\ args = NoArgs
    /\ exit_code = NotExited
    /\ trace = <<>>

NextDoc ==
    \/ CacheMiss \/ EmptyDocument \/ BuildRequest
    \/ AttemptSuccess \/ AttemptFail \/ Exhausted \/ Record \/ Pace \/ Finish

SpecDoc == InitDoc /\ [][NextDoc]_vars

(***************************************************************************)
(* cli.py, "Load cache" to "Save cache", on any list of documents:         *)
(* load_cache, analyze_documents and save_cache called as main calls them, *)
(* by a caller whose documents may come from several directories and may   *)
(* share a file name. The files keep their bytes during the run.           *)
(***************************************************************************)
FrameDisks == {[InitDisk EXCEPT !["alt/a.pdf"] = b] : b \in Contents}

InitFrame ==
    /\ documents \in SeqsUpTo(DocPool, MaxDocs) \ {<<>>}
    /\ config \in Configs
    /\ cache_enabled = FALSE
    /\ cache = <<>>
    /\ disk \in FrameDisks
    /\ pc = "load"
    /\ cur = 0
    /\ attempt = 0
    /\ last_error = NoError
    /\ prompt = NoPrompt
    /\ results = <<>>
    /\ cached_count = 0
    /\ report = NoReport
    /\ ev = <<>>
    /\ cache_file \in {NoCacheFile} \cup {CacheFileOf(c) : c \in ApiCaches}
    /\ prev_run = NoRun
    /\ args = ArgsOf(TRUE, [valid |-> TRUE, value |-> config.max_chars_per_doc],
                     FALSE, FALSE, "dir", <<>>)
    /\ exit_code = NotExited
    /\ trace = <<>>

NextFrame ==
    \/ MainLoadCache \/ MainCreateClient
    \/ CacheHit \/ CacheMiss \/ EmptyDocument \/ BuildRequest
    \/ AttemptSuccess \/ AttemptFail \/ Exhausted \/ Record \/ Pace \/ Finish
    \/ MainSaveCache

SpecFrame == InitFrame /\ [][NextFrame]_vars

(***************************************************************************)
(* models.py, to_dict, and exporter.py, called directly as                 *)
(* tests/test_exporter.py does: one export of a list of results. A str is  *)
(* a sequence of characters; a run of characters holding no comma, double  *)
(* quote or line break may be written as one string of the sequence.       *)
(***************************************************************************)
MaxResults == 3

\* The characters of a str of the model that is held as one string
TextOf(s) == IF s = "" THEN <<>> ELSE <<s>>

\* ", ".join(self.keywords)
RECURSIVE JoinComma(_)
JoinComma(keywords) ==
    IF keywords = <<>> THEN <<>>
    ELSE IF Len(keywords) = 1 THEN keywords[1]
    ELSE keywords[1] \o <<",", " ">> \o JoinComma(Tail(keywords))

\* Mutation of to_dict: the error is written with str()
to_dict_StrOfError(result) ==
    [filename |-> TextOf(result.filename),
     summary |-> result.summary,
     key_entities |-> result.key_entities,
     action_items |-> result.action_items,
     keywords |-> JoinComma(result.keywords),
     error |-> TextOf(result.error)]

\* PdfAnalysisResult.to_dict
to_dict(result) ==
    [filename |-> TextOf(result.filename),
     summary |-> result.summary,
     key_entities |-> result.key_entities,
     action_items |-> result.action_items,
     keywords |-> IF result.keywords # <<>> THEN JoinComma(result.keywords) ELSE <<>>,
     error |-> IF result.error = None \/ result.error = "" THEN <<>>
               ELSE TextOf(result.error)]

column_order == <<"filename", "summary", "key_entities", "action_items", "keywords", "error">>

\* _results_to_dataframe: the columns of column_order that the frame has (none
\* when there is no result) and one row per result
_results_to_dataframe(res) ==
    [columns |-> IF res = <<>> THEN <<>> ELSE column_order,
     rows |-> [i \in DOMAIN res |-> to_dict(res[i])]]

\* csv.writer, QUOTE_MINIMAL: a field holding the delimiter, the quote
\* character or a line break is quoted, and its quote characters doubled
NeedsQuote(field) == \E i \in DOMAIN field : field[i] \in {",", "\"", "\n", "\r"}

RECURSIVE DoubleQuotes(_)
DoubleQuotes(field) ==
    IF field = <<>> THEN <<>>
    ELSE (IF Head(field) = "\"" THEN <<"\"", "\"">> ELSE <<Head(field)>>)
         \o DoubleQuotes(Tail(field))

CsvField(field) ==
    IF NeedsQuote(field) THEN <<"\"">> \o DoubleQuotes(field) \o <<"\"">> ELSE field

RECURSIVE CsvLine(_)
CsvLine(fields) ==
    IF fields = <<>> THEN <<"\n">>
    ELSE IF Len(fields) = 1 THEN CsvField(fields[1]) \o <<"\n">>
    ELSE CsvField(fields[1]) \o <<",">> \o CsvLine(Tail(fields))

RECURSIVE CsvLines(_,_)
CsvLines(columns, rows) ==
    IF rows = <<>> THEN <<>>
    ELSE CsvLine([k \in DOMAIN columns |-> Head(rows)[columns[k]]])
         \o CsvLines(columns, Tail(rows))

\* df.to_csv(output_path, index=False, encoding="utf-8"): the header line and
\* one line per row
to_csv(df) ==
    CsvLine([k \in DOMAIN df.columns |-> TextOf(df.columns[k])])
    \o CsvLines(df.columns, df.rows)

\* export_to_csv: the text of the file written
export_to_csv(res) == to_csv(_results_to_dataframe(res))

\* json.dumps(item, ensure_ascii=False) of one to_dict
JsonOfItem(item) == [k \in DOMAIN item |-> [json |-> "string", value |-> item[k]]]

\* export_to_json: one JSON object per line (jsonl), or one JSON array
export_to_json(res, jsonl) ==
    [jsonl |-> jsonl, items |-> [i \in DOMAIN res |-> JsonOfItem(to_dict(res[i]))]]

\* The k-th smallest member of a set of positions
NthOf(S, k) == CHOOSE i \in S : Cardinality({j \in S : j < i}) = k - 1

\* csv.reader, one field as written: a field that opens with the quote
\* character loses its enclosing quotes, and of each doubled quote character
\* inside it one is kept
Unquoted(raw) ==
    IF raw # <<>> /\ raw[1] = "\""
    THEN LET body == SubSeq(raw, 2, Len(raw) - 1)
             quotes == {j \in DOMAIN body : body[j] = "\""}
             kept == {j \in DOMAIN body :
                         \/ j \notin quotes
                         \/ Cardinality({q \in quotes : q <= j}) % 2 = 0}
         IN  [k \in 1..Cardinality(kept) |-> body[NthOf(kept, k)]]
    ELSE raw

\* csv.reader over the text of a file that csv.writer wrote: the rows read,
\* each the list of its fields. A line break ends a row and a comma ends a
\* field unless it stands inside quotes, that is, after an odd number of quote
\* characters; a blank line gives an empty row.
csv_reader(s) ==
    LET quotes == {j \in DOMAIN s : s[j] = "\""}
        outside(i) == Cardinality({q \in quotes : q < i}) % 2 = 0
        breaks == {i \in DOMAIN s : s[i] = "\n" /\ outside(i)}
        commas == {i \in DOMAIN s : s[i] = "," /\ outside(i)}
        ends == breaks \cup (IF s # <<>> /\ Len(s) \notin breaks THEN {Len(s) + 1} ELSE {})
        lo(k) == IF k = 1 THEN 1 ELSE NthOf(ends, k - 1) + 1
        hi(k) == NthOf(ends, k) - 1
        row(k) ==
            IF lo(k) > hi(k) THEN <<>>
            ELSE LET cuts == {c \in commas : lo(k) <= c /\ c <= hi(k)}
                     from(f) == IF f = 1 THEN lo(k) ELSE NthOf(cuts, f - 1) + 1
                     to(f) == IF f = Cardinality(cuts) + 1 THEN hi(k)
                              ELSE NthOf(cuts, f) - 1
                 IN  [f \in 1..(Cardinality(cuts) + 1) |->
                         Unquoted(SubSeq(s, from(f), to(f)))]
    IN  [k \in 1..Cardinality(ends) |-> row(k)]

\* csv.DictReader: the first row that is not empty names the fields, every
\* later row that is not empty is a record
DictReader(text) ==
    LET rows == SelectSeq(csv_reader(text),
                          LAMBDA r : r # <<>>)
    IN  IF rows = <<>> THEN [fieldnames |-> <<>>, records |-> <<>>]
        ELSE [fieldnames |-> rows[1],
              records |-> [i \in 1..(Len(rows) - 1) |-> rows[i + 1]]]

\* tests/test_exporter.py, sample_results
SampleDoc1 ==
    PdfAnalysisResult("doc1.pdf", <<"Summary of document 1">>,
                      <<"Entity A", ",", " ", "Entity B">>,
                      <<"Action 1", ",", " ", "Action 2">>,
                      << <<"keyword1">>, <<"keyword2">> >>, <<>>, None)
SampleDoc2 ==
    PdfAnalysisResult("doc2.pdf", <<"Summary of document 2">>, <<"Entity C">>,
                      <<"None">>, << <<"keyword3">> >>, <<>>, None)
SampleFailed ==
    PdfAnalysisResult("failed.pdf", <<>>, <<>>, <<>>, <<>>, <<>>, "Failed to process")
sample_results == <<SampleDoc1, SampleDoc2, SampleFailed>>

\* A summary taken from the raw response: it holds quotes and a line break
QuotingResult ==
    PdfAnalysisResult("q.pdf", <<"He said ", "\"", "no", "\"", "\n", "twice">>,
                      <<>>, <<>>, <<>>, <<>>, None)
\* A result restored from a hand-written cache entry whose error is ""
BlankErrorResult ==
    PdfAnalysisResult("e.pdf", <<"ok">>, <<>>, <<>>, <<>>, <<>>, "")

ExportPool ==
    {SampleDoc1, SampleDoc2, SampleFailed, QuotingResult, BlankErrorResult,
     EmptyDocumentResult(DocB), _parse_response(RESP_SECTIONS, "a.pdf")}

InitExport ==
    /\ documents = <<>>
    /\ config \in Configs
    /\ cache_enabled = FALSE
    /\ cache = <<>>
    /\ disk = InitDisk
    /\ pc = "export_api"
    /\ cur = 0
    /\ attempt = 0
    /\ last_error = NoError
    /\ prompt = NoPrompt
    /\ results \in SeqsUpTo(ExportPool, MaxResults)
    /\ cached_count = 0
    /\ report = NoReport
    /\ ev = <<>>
    /\ cache_file = NoCacheFile
    /\ prev_run = NoRun
    /\ args = NoArgs
    /\ exit_code = NotExited
    /\ trace = <<>>

ExportUnchanged == <<documents, config, cache_enabled, cache, disk, pc, cur, attempt, last_error, prompt, results, cached_count, report, cache_file, prev_run, args, exit_code, trace>>

\* export_to_csv(results, output_dir, filename)
ExportToCsv ==
    /\ pc = "export_api" /\ ev = <<>>
    /\ ev' = Append(ev, [op |-> "export_to_csv", format |-> "csv",
                         file |-> export_to_csv(results)])
    /\ UNCHANGED ExportUnchanged

\* export_to_json(results, output_dir, filename, jsonl)
ExportToJson ==
    /\ pc = "export_api" /\ ev = <<>>
    /\ \E jsonl \in BOOLEAN :
         ev' = Append(ev, [op |-> "export_to_json",
                           format |-> IF jsonl THEN "jsonl" ELSE "json",
                           file |-> export_to_json(results, jsonl)])
    /\ UNCHANGED ExportUnchanged

NextExport == ExportToCsv \/ ExportToJson

SpecExport == InitExport /\ [][NextExport]_vars

(***************************************************************************)
(* Reading the effects of the document being processed                     *)
(***************************************************************************)
\* The lookup of document cur returned a cached result
WasHit == ev # <<>> /\ ev[1].op = "lookup" /\ ev[1].hit

\* analyze_document was called for document cur and has returned results[cur]
Returned == cur >= 1 /\ ~WasHit /\ pc \in {"record", "pace", "next", "done"}

CallsOf(log) == SelectSeq(log, LAMBDA e : e.op = "call")

\* _parse_response of each response text the remote call may return, for each
\* file name, computed once
ParsedAs ==
    [r \in Responses |-> [f \in {d.filename : d \in DocPool} |-> _parse_response(r, f)]]
SleepsOf(log, kind) == SelectSeq(log, LAMBDA e : e.op = "sleep" /\ e.kind = kind)
RecordsOf(log) == SelectSeq(log, LAMBDA e : e.op = "record")

IsFailure(outcome) == outcome \in Failures

(***************************************************************************)
(* C1: analyze_documents returns exactly one result per input document, in *)
(* input order: when it returns, len(results) = len(documents) and         *)
(* results[i].filename = documents[i].filename for every i, whatever the   *)
(* mix of cache hits and misses; while it runs, results is such a prefix.  *)
(***************************************************************************)
C1_OneResultPerDocumentInOrder ==
    /\ Len(results) <= Len(documents)
    /\ \A i \in 1..Len(results) : results[i].filename = documents[i].filename
    /\ pc = "done" => Len(results) = Len(documents)

\* A finished run over two differently named documents, one served from the
\* cache and one analysed
C1_Witness ==
    /\ pc = "done" /\ Len(documents) = 2 /\ cached_count = 1
    /\ documents[1].filename # documents[2].filename

(***************************************************************************)
(* C2: for a document with non-empty trimmed text whose remote call fails  *)
(* on every attempt, analyze_document makes exactly 3 remote calls and     *)
(* returns a result whose error is the message of the third failure, with  *)
(* summary, key_entities, action_items and keywords empty.                 *)
(***************************************************************************)
C2_AlwaysFailingThreeCallsLastError ==
    (/\ Returned
     /\ ~IsEmptyText(documents[cur].text)
     /\ \A i \in 1..Len(CallsOf(ev)) : IsFailure(CallsOf(ev)[i].outcome))
    => /\ Len(CallsOf(ev)) = 3
       /\ results[cur].error = CaughtException(CallsOf(ev)[3].outcome).msg
       /\ results[cur].summary = <<>>
       /\ results[cur].key_entities = <<>>
       /\ results[cur].action_items = <<>>
       /\ results[cur].keywords = <<>>

\* Three failures whose last message differs from the first one's
C2_Witness ==
    /\ Returned /\ pc = "record"
    /\ Len(CallsOf(ev)) = 3
    /\ \A i \in 1..3 : IsFailure(CallsOf(ev)[i].outcome)
    /\ CallsOf(ev)[1].outcome # CallsOf(ev)[3].outcome
    /\ results[cur].error = "Empty response from Gemini"

(***************************************************************************)
(* C3: in the retry loop, the first attempt k (1 <= k <= 3) that returns   *)
(* non-empty text ends the loop: exactly k remote calls are made, no       *)
(* remote call and no backoff sleep follows the success, and the returned  *)
(* result is the parse of that response with error absent.                 *)
(***************************************************************************)
C3_FirstSuccessEndsLoop ==
    \A i \in 1..Len(ev) :
        (ev[i].op = "call" /\ ~IsFailure(ev[i].outcome))
        => /\ ev[i].attempt \in 1..MAX_RETRIES
           /\ Len(CallsOf(ev)) = ev[i].attempt
           /\ \A j \in 1..Len(CallsOf(ev)) : CallsOf(ev)[j].attempt = j
           /\ \A j \in (i + 1)..Len(ev) :
                 ev[j].op # "call" /\ ~(ev[j].op = "sleep" /\ ev[j].kind = "backoff")
           /\ Returned
           /\ results[cur] = ParsedAs[ev[i].outcome.text][documents[cur].filename]
           /\ results[cur].error = None

\* Success at the third attempt, after two failures, all effects of the
\* document done
C3_Witness ==
    /\ pc = "next" /\ Returned
    /\ Len(CallsOf(ev)) = 3
    /\ ~IsFailure(CallsOf(ev)[3].outcome)
    /\ CallsOf(ev)[3].outcome.text = RESP_SECTIONS
    /\ results[cur].keywords = << <<"a">>, <<"b">>, <<"c">> >>

(***************************************************************************)
(* C5: cache invalidation. Once cache_result has stored an entry for a     *)
(* document, a change of the file's bytes to content with another hash     *)
(* makes the next lookup of that filename a miss, and analyze_documents    *)
(* calls analyze_document for it again instead of appending a cached       *)
(* result.                                                                 *)
(***************************************************************************)
\* The entry stored for doc's filename carries another hash than doc's file has now
StaleEntryFor(doc) ==
    /\ cache_enabled
    /\ doc.filename \in DOMAIN cache
    /\ disk[doc.path] \in Contents
    /\ cache[doc.filename].file_hash # Md5Hex(disk[doc.path])

C5_ChangedFileIsReanalysed ==
    [][ (/\ pc = "next" /\ cur < Len(documents)
         /\ StaleEntryFor(documents[cur + 1])
         /\ cur' = cur + 1)
        => (pc' = "analyze" /\ results' = results /\ cached_count' = cached_count
            /\ ev' = <<[op |-> "lookup", hit |-> FALSE]>>) ]_vars

\* The same document twice in one run: recorded the first time, its file
\* rewritten, and a miss the second time
C5_Witness ==
    /\ pc = "analyze" /\ cur = 2 /\ documents[1] = documents[2]
    /\ StaleEntryFor(documents[2])
    /\ cache[documents[2].filename].cached_at \in RunTimestamps

(***************************************************************************)
(* C7: a cache hit causes no remote call, no cache write and no pacing     *)
(* sleep for that document; the 0.5 s pacing sleep is taken only after a   *)
(* document that was a cache miss.                                         *)
(***************************************************************************)
C7_HitHasNoEffects ==
    [][ /\ (/\ pc = "next" /\ cur < Len(documents)
            /\ Lookup(documents[cur + 1]) # NoResult
            /\ cur' = cur + 1)
           => /\ cache' = cache
              /\ ev' = <<[op |-> "lookup", hit |-> TRUE]>>
              /\ pc' = "next"
              /\ results' = Append(results, Lookup(documents[cur + 1]))
        /\ (SleepsOf(ev', "pacing") # <<>> /\ SleepsOf(ev', "pacing") # SleepsOf(ev, "pacing"))
           => /\ ~WasHit /\ Returned /\ cur' = cur
              /\ SleepsOf(ev', "pacing") = <<[op |-> "sleep", kind |-> "pacing",
                                              tenths |-> PACING_DELAY_TENTHS]>>
              /\ cache_enabled => ev[1] = [op |-> "lookup", hit |-> FALSE]
      ]_vars

\* A hit on the entry recorded for the document analysed just before
C7_Witness ==
    /\ WasHit /\ cur = 2 /\ pc = "next" /\ cached_count = 1
    /\ results[1].error = None /\ results[2] = results[1]

(***************************************************************************)
(* C8, as claimed: on a cache miss an entry is written only when the       *)
(* analysis succeeded; a result carrying an error is never recorded.       *)
(***************************************************************************)
C8_Claimed_OnlySuccessRecorded ==
    \A i \in 1..Len(ev) :
        (ev[i].op = "record" /\ ev[i].stored /\ CallsOf(ev) # <<>>)
        => results[cur].error = None

(***************************************************************************)
(* C8, amended: on a cache miss with a cache passed, analyze_documents     *)
(* calls cache_result once for the document whatever the outcome; the      *)
(* entry is written whenever the file can be hashed, and it carries the    *)
(* result's fields, its error included.                                    *)
(***************************************************************************)
C8_EveryAnalysedResultRecorded ==
    (cache_enabled /\ Returned /\ pc \in {"pace", "next", "done"})
    => /\ Len(RecordsOf(ev)) = 1
       /\ pc = "pace" =>
            LET doc == documents[cur]
                stored == RecordsOf(ev)[1].stored
            IN  /\ stored = (disk[doc.path] # Missing)
                /\ stored =>
                     /\ doc.filename \in DOMAIN cache
                     /\ cache[doc.filename].error = results[cur].error
                     /\ cache[doc.filename].summary = results[cur].summary
                     /\ cache[doc.filename].raw_response = results[cur].raw_response
                     /\ cache[doc.filename].file_hash = Md5Hex(disk[doc.path])

\* A document whose three attempts failed, recorded with its error
C8_Witness ==
    /\ pc = "pace" /\ cache_enabled /\ Returned
    /\ results[cur].error = "API Error"
    /\ RecordsOf(ev)[1].stored
    /\ cache[documents[cur].filename].error = "API Error"

(***************************************************************************)
(* C9: for a document whose trimmed text is empty, analyze_document makes  *)
(* no remote call and no sleep, and returns a result whose summary is      *)
(* exactly "Document contains no extractable text".                        *)
(***************************************************************************)
C9_EmptyDocumentShortCircuit ==
    (Returned /\ Strip(documents[cur].text) = <<>>)
    => /\ CallsOf(ev) = <<>>
       /\ SleepsOf(ev, "backoff") = <<>>
       /\ pc = "record" => \A i \in 1..Len(ev) : ev[i].op = "lookup"
       /\ results[cur].summary = EMPTY_SUMMARY
       /\ results[cur].filename = documents[cur].filename

\* The whitespace-only document, just returned by analyze_document
C9_Witness ==
    /\ pc = "record" /\ Returned
    /\ documents[cur].text = TEXT_BLANK
    /\ Len(results) = cur

(***************************************************************************)
(* C10, as claimed: the empty-document result has error absent, so it is   *)
(* counted as successful.                                                  *)
(***************************************************************************)
C10_Claimed_EmptyDocumentSuccessful ==
    (Returned /\ Strip(documents[cur].text) = <<>>) => is_successful(results[cur])

(***************************************************************************)
(* C10, amended: the empty-document result has error = "Empty document",   *)
(* so is_successful is false for it and the batch's success count leaves   *)
(* it out.                                                                 *)
(***************************************************************************)
EmptyTextDocs == {i \in 1..Len(documents) : Strip(documents[i].text) = <<>>}

C10_EmptyDocumentIsAFailure ==
    /\ (Returned /\ Strip(documents[cur].text) = <<>>)
       => /\ results[cur].error = "Empty document"
          /\ ~is_successful(results[cur])
    /\ (pc = "done" /\ ~cache_enabled)
       => report.successful <= report.total - Cardinality(EmptyTextDocs)

\* A finished run without cache over an empty document and one that succeeded
C10_Witness ==
    /\ pc = "done" /\ ~cache_enabled /\ Len(documents) = 2
    /\ Cardinality(EmptyTextDocs) = 1
    /\ report.successful = 1

(***************************************************************************)
(* C4: get_cached_result returns a result only if the store has an entry   *)
(* for doc.filename and that entry's stored file_hash equals the hash of   *)
(* the file's current bytes; with no entry, or another hash, or a file     *)
(* that cannot be hashed, it returns no hit.                               *)
(***************************************************************************)
\* The store holds an entry for doc whose file_hash is the hash of doc's file
EntryMatchesFile(doc) ==
    /\ doc.filename \in DOMAIN cache
    /\ disk[doc.path] \in Contents
    /\ "file_hash" \in DOMAIN cache[doc.filename]
    /\ cache[doc.filename].file_hash = Md5Hex(disk[doc.path])

C4_HitOnlyOnMatchingHash ==
    (ev # <<>> /\ ev[Len(ev)].op = "get_cached_result")
    => LET e == ev[Len(ev)] IN
       /\ e.returned # NoResult => EntryMatchesFile(e.doc)
       /\ ~EntryMatchesFile(e.doc) => e.returned = NoResult
       /\ e.returned # NoResult =>
             /\ e.returned.filename = cache[e.doc.filename].filename
             /\ e.returned.summary = cache[e.doc.filename].summary

\* A lookup that misses, then cache_result for the same document, then a
\* lookup that hits the entry just recorded
C4_Witness ==
    /\ Len(ev) = 3
    /\ ev[1].op = "get_cached_result" /\ ev[1].returned = NoResult
    /\ ev[1].doc.filename \in DOMAIN ev[2].cache_after
    /\ ev[2].op = "cache_result" /\ ev[2].doc = ev[1].doc
    /\ ev[3].op = "get_cached_result" /\ ev[3].doc = ev[1].doc
    /\ ev[3].returned # NoResult

(***************************************************************************)
(* C6: record/lookup round trip. cache_result called once or twice with    *)
(* the same document and result, then get_cached_result with the file's    *)
(* bytes unchanged, returns a hit equal to the stored result in all seven  *)
(* fields; recording twice leaves the dict as recording once left it,      *)
(* apart from the entry's cached_at.                                       *)
(***************************************************************************)
SameRecording(e1, e2) ==
    /\ e1.op = "cache_result" /\ e2.op = "cache_result"
    /\ e1.doc = e2.doc /\ e1.result = e2.result /\ e1.bytes = e2.bytes

SameButTimestamp(c1, c2) ==
    /\ DOMAIN c1 = DOMAIN c2
    /\ \A f \in DOMAIN c1 :
          /\ DOMAIN c1[f] = DOMAIN c2[f]
          /\ \A key \in DOMAIN c1[f] \ {"cached_at"} : c1[f][key] = c2[f][key]

C6_RecordLookupRoundTrip ==
    /\ \A j \in 1..Len(ev), k \in 1..Len(ev) :
          (/\ j < k
           /\ ev[j].op = "cache_result" /\ ev[j].bytes \in Contents
           /\ ev[k].op = "get_cached_result"
           /\ ev[k].doc = ev[j].doc /\ ev[k].bytes = ev[j].bytes
           /\ \A m \in (j + 1)..(k - 1) : SameRecording(ev[j], ev[m]))
          => ev[k].returned = ev[j].result
    /\ \A j \in 1..(Len(ev) - 1) :
          (SameRecording(ev[j], ev[j + 1]) /\ ev[j].bytes \in Contents)
          => SameButTimestamp(ev[j].cache_after, ev[j + 1].cache_after)

\* Recorded twice at different times, then looked up: the hit is the result
\* that was stored, keywords included
C6_Witness ==
    /\ Len(ev) = 3
    /\ SameRecording(ev[1], ev[2])
    /\ ev[1].cache_after # ev[2].cache_after
    /\ ev[3].op = "get_cached_result" /\ ev[3].doc = ev[1].doc
    /\ ev[3].returned = ev[1].result
    /\ ev[3].returned.keywords # <<>>

(***************************************************************************)
(* C11: for every result analyze_document returns, error is set if and     *)
(* only if no remote attempt returned non-empty text; whenever error is    *)
(* absent the result is the parse of a non-empty remote response.          *)
(***************************************************************************)
\* The remote calls made for document cur that returned non-empty text
TextCalls ==
    LET calls == CallsOf(ev) IN
    {i \in 1..Len(calls) :
        /\ calls[i].outcome.kind = "text"
        /\ calls[i].outcome.text # <<>>}

C11_ErrorIffNoTextReturned ==
    Returned
    => LET calls == CallsOf(ev)
           with_text == TextCalls
       IN  /\ (results[cur].error # None) <=> (with_text = {})
           /\ results[cur].error = None
              => \E i \in with_text :
                    results[cur] = ParsedAs[calls[i].outcome.text][documents[cur].filename]

\* A response without text at the first attempt, text at the second
C11_Witness ==
    /\ Returned /\ pc = "record"
    /\ Len(CallsOf(ev)) = 2
    /\ CallsOf(ev)[1].outcome = [kind |-> "text", text |-> <<>>]
    /\ TextCalls = {2}
    /\ results[cur].error = None

(***************************************************************************)
(* C12: a document whose analysis exhausts its retries does not stop the   *)
(* run. Its result, carrying the error message, is appended at its         *)
(* position and stays there; the loop ends only after the last document;   *)
(* every document after it is looked up and, on a miss, analysed.          *)
(***************************************************************************)
C12_BatchContinuesAfterFailure ==
    /\ [] (pc = "done" => (cur = Len(documents) /\ Len(results) = Len(documents)))
    /\ [][ /\ (pc = "attempt" /\ attempt = MAX_RETRIES)
              => /\ pc' = "record"
                 /\ Len(results') = cur
                 /\ results'[cur].filename = documents[cur].filename
                 /\ results'[cur].error = last_error.msg
           /\ \A i \in 1..Len(results) : Len(results') >= i /\ results'[i] = results[i]
           /\ (pc = "next" /\ cur < Len(documents) /\ cur' # cur)
              => /\ cur' = cur + 1
                 /\ \/ pc' = "analyze" /\ Lookup(documents[cur + 1]) = NoResult
                    \/ pc' = "next" /\ results' = Append(results, Lookup(documents[cur + 1]))
           /\ pc' = "done" => cur = Len(documents)
         ]_vars

\* A finished run without cache whose first document failed three times and
\* whose second document was analysed successfully
C12_Witness ==
    /\ pc = "done" /\ ~cache_enabled /\ Len(documents) = 2
    /\ results[1].error = "API Error"
    /\ results[2].error = None
    /\ CallsOf(ev) # <<>>

(***************************************************************************)
(* C20: linear backoff. After failed attempt n (counted from 1) the driver *)
(* sleeps 2 s * n (2 s, then 4 s) before attempt n + 1, and it does not    *)
(* sleep after the third failed attempt: an always-failing document causes *)
(* exactly two backoff sleeps, each between two remote calls.              *)
(***************************************************************************)
IsBackoff(e) == e.op = "sleep" /\ e.kind = "backoff"

C20_LinearBackoff ==
    /\ \A j \in 1..Len(ev) :
          IsBackoff(ev[j])
          => /\ j > 1 /\ ev[j - 1].op = "call" /\ IsFailure(ev[j - 1].outcome)
             /\ ev[j - 1].attempt \in {1, 2}
             /\ ev[j].tenths = 20 * ev[j - 1].attempt
             /\ IF j < Len(ev)
                THEN ev[j + 1].op = "call" /\ ev[j + 1].attempt = ev[j - 1].attempt + 1
                ELSE pc = "attempt" /\ attempt = ev[j - 1].attempt
    /\ \A i \in 1..Len(ev) :
          (ev[i].op = "call" /\ IsFailure(ev[i].outcome))
          => IF ev[i].attempt < 3
             THEN i < Len(ev) /\ IsBackoff(ev[i + 1])
             ELSE i = Len(ev) \/ ~IsBackoff(ev[i + 1])
    /\ (Returned /\ Len(CallsOf(ev)) = 3 /\ IsFailure(CallsOf(ev)[3].outcome))
       => SleepsOf(ev, "backoff") = <<[op |-> "sleep", kind |-> "backoff", tenths |-> 20],
                                      [op |-> "sleep", kind |-> "backoff", tenths |-> 40]>>

\* Three failed attempts, the document's pacing sleep taken: call, 2 s, call,
\* 4 s, call, and no backoff sleep after the third call
C20_Witness ==
    /\ Returned /\ pc = "next" /\ ~cache_enabled
    /\ Len(ev) = 6
    /\ ev[2].op = "sleep" /\ ev[2].tenths = 20
    /\ ev[4].op = "sleep" /\ ev[4].tenths = 40
    /\ ev[5].op = "call" /\ ev[6].kind = "pacing"

(***************************************************************************)
(* Reading the log of direct _parse_response calls                         *)
(***************************************************************************)
ParseEvents == {i \in 1..Len(ev) : ev[i].op = "_parse_response"}

\* The section names of a response, in order
NamesOf(secs) == [i \in 1..Len(secs) |-> secs[i].name]

\* All four headers, each once, in some order
AllFourOnce(secs) ==
    Len(secs) = 4 /\ {secs[i].name : i \in 1..Len(secs)} = SectionNames

\* The content of the sections the inputs are built from, lines joined by
\* single spaces, and the keyword items
EXPECT_SUMMARY      == <<"A"," ","t","e","s","t",".">>
EXPECT_KEY_ENTITIES == <<"B","o","b",","," ","A","c","m","e">>
EXPECT_ACTION_ITEMS == <<"D","o"," ","i","t">>
EXPECT_KEYWORDS     == << <<"a">>, <<"b">>, <<"c">> >>

\* s is the first 500 characters of text, all of text if it has no more
IsFirst500Of(s, text) ==
    /\ Len(s) = (IF Len(text) > 500 THEN 500 ELSE Len(text))
    /\ \A i \in 1..Len(s) : s[i] = text[i]

(***************************************************************************)
(* C14, as claimed: for a raw response that contains all four headers in   *)
(* any order, each with content, _parse_response returns summary,          *)
(* key_entities and action_items equal to the space-joined non-empty lines *)
(* of their own section, and keywords equal to the non-empty               *)
(* comma-separated items of the KEYWORDS section.                          *)
(***************************************************************************)
C14_Claimed_AllSectionsRecovered ==
    \A i \in ParseEvents :
        AllFourOnce(ev[i].sections)
        => /\ ev[i].returned.summary = EXPECT_SUMMARY
           /\ ev[i].returned.key_entities = EXPECT_KEY_ENTITIES
           /\ ev[i].returned.action_items = EXPECT_ACTION_ITEMS
           /\ ev[i].returned.keywords = EXPECT_KEYWORDS

(***************************************************************************)
(* C15, as claimed: the response "SUMMARY:\nA test.\n\nKEYWORDS:\na, b, c" *)
(* parses to summary "A test.", keywords ["a","b","c"], and key_entities   *)
(* and action_items both empty.                                            *)
(***************************************************************************)
C15_Claimed_SummaryAndKeywords ==
    \A i \in ParseEvents :
        ev[i].response_text = RESP_SECTIONS
        => /\ ev[i].returned.summary = EXPECT_SUMMARY
           /\ ev[i].returned.keywords = EXPECT_KEYWORDS
           /\ ev[i].returned.key_entities = <<>>
           /\ ev[i].returned.action_items = <<>>

(***************************************************************************)
(* C16: parser fallback. Whenever, after scanning, none of summary,        *)
(* key_entities and action_items received any content, _parse_response     *)
(* sets summary to the first 500 characters of the raw response (the whole *)
(* response if it has at most 500); whenever at least one of the three     *)
(* received content, summary is not replaced by raw text.                  *)
(***************************************************************************)
\* The function's variables after the loop and "Process final section"
Scanned(response_text) ==
    ProcessFinal(ParseLines(ParseInit, Split(response_text, "\n")))

C17_Claimed_KeywordsOnlySummaryEmpty ==
    \A i \in ParseEvents :
        NamesOf(ev[i].sections) = <<"keywords">>
        => /\ ev[i].returned.keywords = EXPECT_KEYWORDS
           /\ ev[i].returned.summary = <<>>

(***************************************************************************)
(* C17, amended: a response with only a KEYWORDS: section and no other     *)
(* header parses its keywords into the ordered keyword list, and since     *)
(* none of summary, key_entities, action_items has content the fallback is *)
(* triggered: summary is the first 500 characters of the raw response.     *)
(***************************************************************************)
C17_KeywordsOnlyTriggersFallback ==
    \A i \in ParseEvents :
        NamesOf(ev[i].sections) = <<"keywords">>
        => /\ ev[i].returned.keywords = EXPECT_KEYWORDS
           /\ ev[i].returned.summary # <<>>
           /\ IsFirst500Of(ev[i].returned.summary, ev[i].response_text)
           /\ ev[i].returned.key_entities = <<>>
           /\ ev[i].returned.action_items = <<>>

\* "KEYWORDS:\na, b, c" parsed: three keywords, summary is the raw text
C17_Witness ==
    /\ ParseEvents # {}
    /\ ev[1].sections = <<[name |-> "keywords", style |-> "below"]>>
    /\ Len(ev[1].returned.keywords) = 3
    /\ ev[1].returned.summary = ev[1].response_text

(***************************************************************************)
(* C18: every result built from a successful remote call (non-empty        *)
(* response text) is non-empty-looking: at least one of summary,           *)
(* key_entities, action_items is a non-empty string, for every response    *)
(* text.                                                                   *)
(***************************************************************************)
C18_SuccessLooksNonEmpty ==
    \A i \in ParseEvents :
        ev[i].response_text # <<>>
        => \/ ev[i].returned.summary # <<>>
           \/ ev[i].returned.key_entities # <<>>
           \/ ev[i].returned.action_items # <<>>

\* A response that has headers but whose last section is KEYWORDS, so that
\* no field but keywords is set by the scan
C18_Witness ==
    /\ ParseEvents # {}
    /\ NamesOf(ev[1].sections) = <<"summary", "action_items", "keywords">>
    /\ ev[1].returned.keywords # <<>>
    /\ ev[1].returned.summary # <<>>

(***************************************************************************)
(* C19: the raw response is retained verbatim. For every response text     *)
(* _parse_response returns a result whose raw_response is that text        *)
(* exactly, whether sections were parsed or the fallback was used, and the *)
(* value survives a cache_result / get_cached_result round trip unchanged. *)
(***************************************************************************)
C19_RawResponseVerbatim ==
    /\ \A i \in ParseEvents : ev[i].returned.raw_response = ev[i].response_text
    /\ (Len(ev) >= 2 /\ ev[2].op = "cache_result")
       => cache[ev[2].doc.filename].raw_response = ev[1].response_text
    /\ (Len(ev) = 3 /\ ev[3].op = "get_cached_result")
       => /\ ev[3].returned # NoResult
          /\ ev[3].returned.raw_response = ev[1].response_text

\* A 501-character response, cut to 500 in summary, recorded and looked up
C19_Witness ==
    /\ Len(ev) = 3 /\ ev[3].op = "get_cached_result"
    /\ Len(ev[1].response_text) = 501
    /\ Len(ev[3].returned.summary) = 500
    /\ Len(ev[3].returned.raw_response) = 501

FailureMessage(outcome) ==
    IF outcome.kind = "raise" THEN outcome.msg ELSE "Empty response from Gemini"

C21_EmptyTextHandledAsRaise ==
    LET calls == CallsOf(ev) IN
    /\ Len(calls) <= MAX_RETRIES
    /\ \A i \in DOMAIN ev :
          (ev[i].op = "call" /\ IsFailure(ev[i].outcome))
          => /\ ev[i].attempt <= MAX_RETRIES
             /\ IF ev[i].attempt < MAX_RETRIES
                THEN /\ i < Len(ev)
                     /\ ev[i + 1] = SleepEvent("backoff",
                                       RETRY_DELAY_SECONDS * ev[i].attempt * 10)
                     /\ i + 2 <= Len(ev)
                        => /\ ev[i + 2].op = "call"
                           /\ ev[i + 2].attempt = ev[i].attempt + 1
                ELSE \/ i = Len(ev)
                     \/ ev[i + 1].op \notin {"call", "sleep"}
                     \/ (ev[i + 1].op = "sleep" /\ ev[i + 1].kind # "backoff")
    /\ (Returned /\ Len(calls) = MAX_RETRIES /\ IsFailure(calls[MAX_RETRIES].outcome))
       => results[cur] = PdfAnalysisResult(documents[cur].filename, <<>>, <<>>, <<>>,
                             <<>>, <<>>, FailureMessage(calls[MAX_RETRIES].outcome))

\* The first attempt raised, the second and third returned no text: 2 s and
\* 4 s of backoff, three calls, and the error is the empty response's message
C21_Witness ==
    /\ Returned /\ pc = "record"
    /\ Len(ev) = 5
    /\ ev[1].op = "call" /\ ev[1].outcome.kind = "raise"
    /\ ev[3].op = "call" /\ ev[3].outcome = [kind |-> "text", text |-> <<>>]
    /\ ev[4] = SleepEvent("backoff", 40)
    /\ ev[5].op = "call" /\ ev[5].outcome = [kind |-> "text", text |-> <<>>]
    /\ results[cur].error = "Empty response from Gemini"

(***************************************************************************)
(* C22, as claimed: for every document and every configured                *)
(* max_chars_per_doc, the document text in the prompt of every remote      *)
(* call, first attempt or retry, is the prefix of the document's text of   *)
(* length min(len(text), max_chars_per_doc), and a text longer than the    *)
(* budget is never sent in full. (A budget below zero is read as a budget  *)
(* of zero characters, the reading most favourable to the code.)           *)
(***************************************************************************)
Min(a, b) == IF a < b THEN a ELSE b
BudgetOf(cfg) == IF cfg.max_chars_per_doc < 0 THEN 0 ELSE cfg.max_chars_per_doc

C22_Claimed_PromptHoldsPrefixOfBudget ==
    \A i \in DOMAIN ev :
       ev[i].op = "call"
       => LET text == documents[cur].text
              sent == ev[i].contents.document_text
          IN  /\ Len(sent) = Min(Len(text), BudgetOf(config))
              /\ sent = SubSeq(text, 1, Len(sent))
              /\ Len(text) > config.max_chars_per_doc => sent # text

(***************************************************************************)
(* C23, as claimed: load_cache never fails its caller and returns an empty *)
(* store whenever the cache file is absent, unreadable or malformed (its   *)
(* content is not a JSON object mapping filenames to entry objects), and   *)
(* no lookup in analyze_documents raises on a store load_cache returned.   *)
(***************************************************************************)
\* The file holds a JSON object of entry objects
IsObjectFile(file) ==
    /\ file.exists /\ file.readable /\ ~file.malformed
    /\ DOMAIN file.content # {"json", "items"}

C23_Claimed_LoadCacheEmptyOrObject ==
    /\ (pc = "client" /\ cache_enabled /\ ~IsObjectFile(cache_file)) => cache = <<>>
    /\ \A i \in DOMAIN trace :
          trace[i].op = "analyze_documents" => trace[i].raised = None

(***************************************************************************)
(* C24, as claimed: save_cache never propagates a failure to its caller.   *)
(* Whatever fails while it creates the directory or writes the file, the   *)
(* call returns, and main goes on to export the results.                   *)
(***************************************************************************)
C24_Claimed_SaveNeverPropagates ==
    \A i \in DOMAIN trace :
       trace[i].op = "save_cache"
       => /\ trace[i].raised = None
          /\ pc = "export" \/ (i < Len(trace) /\ trace[i + 1].op = "export_results")

(***************************************************************************)
(* C25: a hashing failure (the document's file is missing or unreadable)   *)
(* never propagates. With a cache passed, the loop step that looks up a    *)
(* document whose file cannot be hashed is a miss: nothing is taken from   *)
(* the cache, the store is unchanged and analyze_document is entered. The  *)
(* step that records the result of a document whose file cannot be hashed  *)
(* leaves the store exactly as it was, an earlier entry for that filename  *)
(* included, and the loop goes on to the pacing sleep and the next         *)
(* document.                                                               *)
(***************************************************************************)
C25_HashFailureNeverPropagates ==
    [][ /\ (/\ pc = "next" /\ cur < Len(documents) /\ cache_enabled
            /\ cur' = cur + 1
            /\ disk[documents[cur + 1].path] = Missing)
           => /\ pc' = "analyze"
              /\ ev' = <<[op |-> "lookup", hit |-> FALSE]>>
              /\ UNCHANGED <<cache, results, cached_count>>
        /\ (/\ pc = "record" /\ cache_enabled /\ pc' # pc
            /\ disk[documents[cur].path] = Missing)
           => /\ pc' = "pace"
              /\ ev' = Append(ev, [op |-> "record", stored |-> FALSE])
              /\ UNCHANGED <<cache, results, cur>>
      ]_vars

\* The second of two documents was looked up and recorded while its file was
\* missing: the lookup missed although the store has an entry for the name,
\* nothing was stored, the entry is the one of the earlier run, and the loop
\* has gone on to the end
C25_Witness ==
    /\ pc = "done" /\ cache_enabled /\ Len(documents) = 2
    /\ disk[documents[2].path] = Missing
    /\ Len(ev) >= 2
    /\ ev[1] = [op |-> "lookup", hit |-> FALSE]
    /\ \E i \in DOMAIN ev : ev[i] = [op |-> "record", stored |-> FALSE]
    /\ documents[2].filename \in DOMAIN cache
    /\ cache[documents[2].filename].cached_at = "t0"
    /\ Len(results) = 2

(***************************************************************************)
(* C26, as claimed: after any save_cache, clear_cache returns true.        *)
(***************************************************************************)
C26_Claimed_ClearAfterAnySaveIsTrue ==
    \A i \in DOMAIN ev :
       (/\ i > 1 /\ ev[i].op = "clear_cache" /\ ~ev[i].raised
        /\ ev[i - 1].op = "save_cache" /\ ~ev[i - 1].raised)
       => ev[i].returned

(***************************************************************************)
(* C26, amended: a clear_cache that returns deletes the cache file if it   *)
(* is present and returns true exactly when a file was deleted. After a    *)
(* save_cache that left a file (it wrote the file, or the file was there   *)
(* before) clear_cache returns true and a following load_cache returns an  *)
(* empty store; with no file present it returns false and changes          *)
(* nothing; a second clear_cache in a row returns false. After a           *)
(* save_cache that failed to create the file (the failure is swallowed)    *)
(* and found none, clear_cache returns false.                              *)
(***************************************************************************)
C26_ClearDeletesAndReports ==
    \A i \in DOMAIN ev :
       (ev[i].op = "clear_cache" /\ ~ev[i].raised)
       => /\ ev[i].returned = ev[i].file_before.exists
          /\ ev[i].file_after = NoCacheFile
          /\ ~ev[i].file_before.exists => ev[i].file_after = ev[i].file_before
          /\ (i > 1 /\ ev[i - 1].op = "save_cache" /\ ~ev[i - 1].raised)
             => ev[i].returned = ev[i - 1].file_after.exists
          /\ (i > 1 /\ ev[i - 1].op = "save_cache" /\ ev[i - 1].outcome = "written")
             => ev[i].returned
          /\ (i > 1 /\ ev[i - 1].op = "clear_cache" /\ ~ev[i - 1].raised)
             => ~ev[i].returned
          /\ (i < Len(ev) /\ ev[i + 1].op = "load_cache")
             => ev[i + 1].returned = <<>>

\* A store with an entry is saved, the first clear_cache returns true and
\* the second false
C26_Witness ==
    /\ Len(ev) = 3
    /\ ev[1].op = "save_cache" /\ ev[1].outcome = "written"
    /\ ev[1].store = HandWrittenCache
    /\ ev[2].op = "clear_cache" /\ ev[2].returned /\ ev[2].file_before.exists
    /\ ev[3].op = "clear_cache" /\ ~ev[3].returned /\ ~ev[3].raised
    /\ cache_file = NoCacheFile

(***************************************************************************)
(* Reading the steps of main                                               *)
(***************************************************************************)
\* Steps of main that read, write or delete the cache file
CacheFileSteps ==
    SelectSeq(trace, LAMBDA e : e.op \in {"load_cache", "save_cache", "clear_cache"})
StepsOf(op) == SelectSeq(trace, LAMBDA e : e.op = op)

C28_CacheFileSavedOnceAtEnd ==
    /\ [] ((documents # <<>> /\ ~args.no_cache)
           => LET saves == StepsOf("save_cache") IN
              /\ Len(saves) <= 1
              /\ pc \in {"load", "client", "next", "analyze", "attempt", "record",
                         "pace", "done"} => saves = <<>>
              /\ pc = "export"
                 => /\ Len(saves) = 1
                    /\ trace[Len(trace)].op = "save_cache"
                    /\ Len(results) = Len(documents)
              /\ (pc = "exit" /\ exit_code = 0) => Len(saves) = 1
              /\ saves # <<>> => report # NoReport /\ Len(results) = Len(documents))
    /\ [][(documents # <<>> /\ cache_file' # cache_file)
          => /\ pc = "done" /\ pc' = "export"
             /\ cache_enabled
             /\ Len(results) = Len(documents)]_vars

\* Two documents were analysed with caching enabled and no usable cache
\* file; the file was written once, after both results, and holds the store
C28_Witness ==
    /\ ~args.no_cache /\ pc = "export"
    /\ Len(documents) = 2 /\ Len(results) = 2 /\ cached_count = 0
    /\ Len(StepsOf("save_cache")) = 1
    /\ trace[Len(trace)] = [op |-> "save_cache", raised |-> None, outcome |-> "written"]
    /\ cache # <<>>
    /\ cache_file = CacheFileOf(cache)

(***************************************************************************)
(* C29: a missing API credential is fatal before any processing. When      *)
(* GEMINI_API_KEY is not set, with or without --clear-cache, the only step *)
(* main takes is load_config, which raises; main returns 1; no PDF is      *)
(* listed or loaded, the cache file is not read, written or deleted, no    *)
(* client is created and no remote call is made.                           *)
(***************************************************************************)
C29_MissingCredentialStopsEverything ==
    /\ [] (~args.api_key
           => /\ pc \in {"start", "exit"}
              /\ pc = "start" => trace = <<>> /\ exit_code = NotExited
              /\ pc = "exit"
                 => /\ trace = <<TraceEvent("load_config", "ValueError")>>
                    /\ exit_code = 1
              /\ documents = <<>> /\ results = <<>> /\ ev = <<>>
              /\ ~cache_enabled /\ cache = <<>>
              /\ config = NoConfig)
    /\ [][~args.api_key => cache_file' = cache_file]_vars

\* No credential, --clear-cache given, a cache file and PDFs present: main
\* has returned 1 and the file is still there
C29_Witness ==
    /\ ~args.api_key /\ args.clear_cache
    /\ args.input_dir = "dir" /\ Len(args.listing) = 2
    /\ cache_file.exists
    /\ pc = "exit" /\ exit_code = 1

(***************************************************************************)
(* C30: exit codes of main. main returns 0 or 1. It returns 1 exactly when *)
(* a step raised: load_config, the validation of the input directory in    *)
(* load_pdfs, export_results, or any other step (clear_cache,              *)
(* create_client, analyze_documents, save_cache); the step that raised is  *)
(* the last one taken. It returns 0 when the pipeline ran through          *)
(* export_results, whatever errors the documents' results carry, when no   *)
(* PDF document was found, and after --clear-cache was handled.            *)
(***************************************************************************)
C30_ExitCodes ==
    /\ (pc = "exit") <=> (exit_code # NotExited)
    /\ \A i \in DOMAIN trace : (trace[i].raised # None) => (i = Len(trace) /\ pc = "exit")
    /\ pc = "exit"
       => LET last == trace[Len(trace)] IN
          /\ exit_code \in {0, 1}
          /\ (exit_code = 1) <=> (last.raised # None)
          /\ exit_code = 0
             => \/ last.op = "export_results" /\ Len(results) = Len(documents)
                \/ last.op = "load_pdfs" /\ documents = <<>>
                \/ last.op = "clear_cache" /\ args.clear_cache
          /\ (last.op = "load_config" /\ last.raised # None) => last.raised = "ValueError"
          /\ (last.op = "load_pdfs" /\ last.raised # None)
             => last.raised = (IF args.input_dir = "missing"
                               THEN "FileNotFoundError" ELSE "ValueError")

\* The pipeline completed for two documents, both results carry an error,
\* and main returned 0
C30_Witness ==
    /\ pc = "exit" /\ exit_code = 0
    /\ Len(results) = 2
    /\ \A i \in 1..2 : results[i].error # None
    /\ trace[Len(trace)] = TraceEvent("export_results", None)

C32_ExtractionErrorKeepsBatch ==
    (\E i \in DOMAIN trace : trace[i] = TraceEvent("load_pdfs", None))
    => /\ Len(documents) = Len(args.listing)
       /\ \A i \in DOMAIN documents :
            LET f == args.listing[i]
                d == documents[i] IN
            /\ d.path = f.path /\ d.filename = PathName(f.path)
            /\ IF f.extraction.raised
               THEN d.text = <<>> /\ d.page_count = 0
               ELSE d.text = f.extraction.text /\ d.page_count = f.extraction.page_count
       /\ (cur >= 1 /\ cur <= Len(documents) /\ args.listing[cur].extraction.raised
           /\ pc \in {"analyze", "attempt", "record", "pace", "next", "done"})
          => /\ pc # "attempt"
             /\ CallsOf(ev) = <<>> /\ SleepsOf(ev, "backoff") = <<>>
             /\ Returned => results[cur] = EmptyDocumentResult(documents[cur])
       /\ pc = "done" => Len(results) = Len(documents)

\* bad.pdf cannot be read and c.pdf can: the run ended with two results, the
\* first the empty-document result, the second a successful analysis
C32_Witness ==
    /\ args.listing = <<FileBad, FileC>>
    /\ documents = <<DocBad, DocC>>
    /\ pc = "exit" /\ exit_code = 0
    /\ Len(results) = 2
    /\ results[1] = EmptyDocumentResult(DocBad)
    /\ results[2].filename = "c.pdf" /\ is_successful(results[2])

(***************************************************************************)
(* C33: cache identity is the filename, not the path. A lookup that        *)
(* follows a cache_result with no other cache_result in between            *)
(* (a) returns the recorded result when its document has the recorded      *)
(*     filename and its file had, at the lookup, the bytes hashed at the   *)
(*     recording, whatever directory either path is in;                    *)
(* (b) returns None when the store has no entry under its document's       *)
(*     filename, even if its path and bytes are those of the recorded      *)
(*     document.                                                           *)
(***************************************************************************)
C33_IdentityIsFilename ==
    \A i, j \in DOMAIN ev :
        (/\ i < j
         /\ ev[i].op = "cache_result" /\ ev[j].op = "get_cached_result"
         /\ \A k \in (i + 1)..(j - 1) : ev[k].op # "cache_result")
        => /\ (/\ ev[j].doc.filename = ev[i].doc.filename
               /\ ev[i].bytes # Missing
               /\ ev[j].bytes = ev[i].bytes)
              => ev[j].returned = ev[i].result
           /\ ev[j].doc.filename \notin DOMAIN ev[i].cache_after
              => ev[j].returned = NoResult

\* Recorded for in/a.pdf and served for alt/a.pdf; the same file under the
\* name renamed.pdf is not served
C33_Witness ==
    /\ Len(ev) = 3
    /\ ev[1].op = "cache_result" /\ ev[1].doc = DocA
    /\ ev[2].op = "get_cached_result" /\ ev[2].doc = DocA2
    /\ ev[2].returned = ev[1].result
    /\ ev[3].op = "get_cached_result" /\ ev[3].doc = DocRenamed
    /\ ev[3].bytes = ev[1].bytes
    /\ ev[3].returned = NoResult

\* What a reader finds in an exported file: the column names of the CSV header
\* and the csv.DictReader rows, or the JSON objects
RecordsRead(e) ==
    IF e.format = "csv"
    THEN LET r == DictReader(e.file) IN
         [header |-> [k \in DOMAIN r.fieldnames |-> r.fieldnames[k][1]],
          records |->
            [i \in DOMAIN r.records |->
               [c \in {r.fieldnames[k][1] : k \in DOMAIN r.fieldnames} |->
                   r.records[i][CHOOSE k \in DOMAIN r.fieldnames : r.fieldnames[k][1] = c]]]]
    ELSE [header |-> <<>>,
          records |-> [i \in DOMAIN e.file.items |->
                         [c \in DOMAIN e.file.items[i] |-> e.file.items[i][c].value]]]

Populated(text) == text # <<>>

(***************************************************************************)
(* C34: export produces one flat record per result, in result order, with  *)
(* the columns filename, summary, key_entities, action_items, keywords and *)
(* error (in that order in the CSV header): each record holds the result's *)
(* filename, summary, key entities and action items, its keywords joined   *)
(* with ", ", and its error, and the error column is non-empty exactly for *)
(* the results whose error is a non-empty string. For the three sample     *)
(* results, two successful and one with error "Failed to process", the CSV *)
(* has exactly 3 data rows and only the third has its error populated.     *)
(***************************************************************************)
C34_ExportOneRecordPerResult ==
    \A n \in DOMAIN ev :
        ev[n].op \in {"export_to_csv", "export_to_json"}
        => LET read == RecordsRead(ev[n])
               rec == read.records
           IN
           /\ Len(rec) = Len(results)
           /\ (ev[n].format = "csv" /\ results # <<>>) => read.header = column_order
           /\ \A i \in DOMAIN rec :
                /\ DOMAIN rec[i] = {column_order[k] : k \in DOMAIN column_order}
                /\ rec[i].filename = <<results[i].filename>>
                /\ rec[i].summary = results[i].summary
                /\ rec[i].key_entities = results[i].key_entities
                /\ rec[i].action_items = results[i].action_items
                /\ rec[i].keywords = JoinComma(results[i].keywords)
                /\ Populated(rec[i].error)
                      <=> (results[i].error # None /\ results[i].error # "")
                /\ Populated(rec[i].error) => rec[i].error = <<results[i].error>>
           /\ (ev[n].format = "csv" /\ results = sample_results)
              => /\ Len(rec) = 3
                 /\ ~Populated(rec[1].error) /\ ~Populated(rec[2].error)
                 /\ rec[3].error = <<"Failed to process">>

\* The three sample results were exported to CSV: three data rows, the first
\* with the keywords joined, the third with the error
C34_Witness ==
    /\ results = sample_results
    /\ \E n \in DOMAIN ev :
         /\ ev[n].format = "csv"
         /\ Len(RecordsRead(ev[n]).records) = 3
         /\ RecordsRead(ev[n]).records[1].keywords = <<"keyword1", ",", " ", "keyword2">>
         /\ RecordsRead(ev[n]).records[3].error = <<"Failed to process">>

\* pdf_loader.py: the bytes a document's text was extracted from, those its
\* file held when load_pdfs read it, before analyze_documents began
ExtractedFrom(doc) == InitDisk[doc.path]

(***************************************************************************)
(* C35, as claimed: a cache hit never returns an analysis of bytes other   *)
(* than those currently on disk, even when another process rewrites the    *)
(* file during the run: every entry created by this run carries the hash   *)
(* of the bytes that the recorded result was analysed from, so no entry    *)
(* pairs the hash of bytes written after the extraction with the result    *)
(* analysed from the text extracted before.                                *)
(***************************************************************************)
C35_Claimed_EntryHashIsOfAnalysedBytes ==
    \A f \in DOMAIN cache :
        cache[f].cached_at \in RunTimestamps
        => \E i \in 1..cur :
              /\ documents[i].filename = f
              /\ cache[f].file_hash = Md5Hex(ExtractedFrom(documents[i]))

\* The store analyze_documents was given: what load_cache read from the cache
\* file, which is not written before save_cache
StoreAtStart == load_cache(cache_file)

\* The store before document i is looked up, and whether its lookup is a hit:
\* the run replayed from its results (the files keep their bytes)
RECURSIVE StoreBefore(_)
StoreBefore(i) ==
    IF i = 1 THEN StoreAtStart
    ELSE LET c == StoreBefore(i - 1) IN
         IF get_cached_result(c, documents[i - 1], disk) # NoResult THEN c
         ELSE cache_result(c, documents[i - 1], results[i - 1], disk,
                           CHOOSE now \in RunTimestamps : TRUE)

HitAt(i) == get_cached_result(StoreBefore(i), documents[i], disk) # NoResult

ProcessedNames == {documents[i].filename : i \in 1..Len(results)}

LastSection(secs) == secs[Len(secs)].name

\* The fields of a scan that hold something
PopulatedFields(st) ==
    {f \in SectionNames :
        CASE f = "summary" -> st.summary # <<>>
          [] f = "key_entities" -> st.key_entities # <<>>
          [] f = "action_items" -> st.action_items # <<>>
          [] f = "keywords" -> st.keywords # <<>>}

ServedFromCache == \E i \in DOMAIN ev : ev[i].op = "lookup" /\ ev[i].hit

\* analyze_documents is through with document cur: its result is in results
DocumentProcessed == cur >= 1 /\ Len(results) = cur

(***************************************************************************)
(* C38: the retry ceiling bounds the attempts. In any run of               *)
(* analyze_documents the remote calls made for one document are never more *)
(* than MAX_RETRIES = 3; once the document is processed they are between 1 *)
(* and 3 if it was a cache miss with non-empty trimmed text and exactly 0   *)
(* if it was a cache hit or has empty trimmed text. Every remote call of   *)
(* the run is one of these: a step adds at most one call, only inside the  *)
(* retry loop of the current document and below the ceiling, and the count *)
(* starts again from 0 only when the loop moves to the next document; so  *)
(* the calls of a run are at most 3 times the number of such misses.       *)
(***************************************************************************)
C38_RetryCeilingBoundsCalls ==
    /\ [](/\ MAX_RETRIES = 3
          /\ Len(CallsOf(ev)) <= 3
          /\ pc = "attempt" => Len(CallsOf(ev)) = attempt
          /\ DocumentProcessed
             => IF ServedFromCache \/ IsEmptyText(documents[cur].text)
                THEN Len(CallsOf(ev)) = 0
                ELSE Len(CallsOf(ev)) \in 1..3)
    /\ [][\/ CallsOf(ev') = CallsOf(ev)
          \/ /\ pc = "attempt" /\ cur' = cur /\ attempt < 3
             /\ ~IsEmptyText(documents[cur].text) /\ ~ServedFromCache
             /\ Len(CallsOf(ev')) = Len(CallsOf(ev)) + 1
             /\ SubSeq(CallsOf(ev'), 1, Len(CallsOf(ev))) = CallsOf(ev)
          \/ /\ pc = "next" /\ cur' = cur + 1 /\ DocumentProcessed
             /\ CallsOf(ev') = <<>>]_vars

\* The first document was served from the cache without a call, the second
\* was a miss with text whose three calls all failed
C38_Witness ==
    /\ pc = "pace" /\ cur = 2 /\ cached_count = 1
    /\ ~ServedFromCache /\ ~IsEmptyText(documents[cur].text)
    /\ Len(CallsOf(ev)) = 3
    /\ results[2].error # None

(***************************************************************************)
(* C39: termination. Provided every remote call returns or raises and      *)
(* every sleep returns, analyze_documents returns, for every document list, *)
(* every cache and every pattern of remote successes and failures, and     *)
(* each document has then been processed exactly once: the loop takes the  *)
(* documents one after the other, never one again, a document is taken     *)
(* when the one before has its result, and at the return there is one      *)
(* result per document.                                                    *)
(***************************************************************************)
C39_Terminates ==
    /\ <>[](pc = "done" /\ cur = Len(documents) /\ Len(results) = Len(documents))
    /\ [][/\ cur' = cur \/ (cur' = cur + 1 /\ pc = "next" /\ Len(results) = cur)
          /\ Len(results') = Len(results)
             \/ (Len(results') = Len(results) + 1 /\ Len(results') = cur')]_vars

\* The run returned after a document whose three calls failed, an empty one
\* and, with a cache passed, at least one lookup
C39_Witness ==
    /\ pc = "done" /\ Len(documents) = MaxDocs /\ Len(results) = Len(documents)
    /\ cache_enabled
    /\ \E i \in DOMAIN results : results[i].error # None /\ ~IsEmptyText(documents[i].text)
    /\ \E i \in DOMAIN results : IsEmptyText(documents[i].text)

=============================================================================
